---- MODULE Spec2Model ----
(***************************************************************************)
(* ADIv5 transfer engine of probe-rs (architecture/arm/traits/polyfill.rs) *)
(* as a state machine.  One probe handle, single-threaded: the state is    *)
(* the probe handle (protocol, SwdSettings, idle_cycles), the stack of     *)
(* raw_* / perform_transfers calls in progress, the locals of the active   *)
(* perform_transfers call, and a record of the probe I/O done so far.      *)
(* The target is the environment: every probe I/O draws its                *)
(* acknowledgements and data words nondeterministically.                   *)
(***************************************************************************)
EXTENDS Integers, Sequences, FiniteSets, TLC

\* ------------------------------------------------------------------ bounds
MaxBatch == 2
MaxRetries == 2

\* ------------------------------------------------------- program constants
JTAG_ABORT_VALUE == 8
JTAG_ABORT_IR_VALUE == 8
JTAG_DEBUG_PORT_IR_VALUE == 10
JTAG_ACCESS_PORT_IR_VALUE == 11
JTAG_STATUS_WAIT == 1
JTAG_STATUS_OK == 2
JTAG_DR_BIT_LENGTH == 35
U8Max == 255

\* ---------------------------------------------------------------- helpers
Min(a, b) == IF a <= b THEN a ELSE b
Max(a, b) == IF a >= b THEN a ELSE b

\* RegisterAddress: the DP registers the engine tells apart, and one AP register.
DpAddresses == {"DP_ABORT", "DP_DPIDR", "DP_CTRL", "DP_SELECT", "DP_RDBUFF"}
Addresses == DpAddresses \cup {"AP"}
\* AP registers, one for each value of A[3:2]; "AP" is the one at offset 0.
ApAddresses == {"AP", "AP_4", "AP_8", "AP_C"}
CTRL_PORT == "DP_CTRL"

Read == "Read"
Write == "Write"

\* TransferStatus, with Failed(DapError) flattened to the error's name.
Pending == "Pending"
Ok == "Ok"
WaitResponse == "WaitResponse"
FaultResponse == "FaultResponse"
NoAcknowledge == "NoAcknowledge"
IncorrectParity == "IncorrectParity"
ProtocolSwd == "Protocol"
DapErrors == {WaitResponse, FaultResponse, NoAcknowledge, IncorrectParity, ProtocolSwd}
FatalErrors == {NoAcknowledge, IncorrectParity, ProtocolSwd}

\* The Abort register as a word: DAPABORT is bit 0, STKERRCLR bit 2,
\* ORUNERRCLR bit 4.  Abort(0) with the given fields set.
Abort(set_dapabort, set_stkerrclr, set_orunerrclr) ==
    (IF set_dapabort THEN 1 ELSE 0) + (IF set_stkerrclr THEN 4 ELSE 0)
    + (IF set_orunerrclr THEN 16 ELSE 0)

\* Abort::dapabort, Abort::stkerrclr, Abort::orunerrclr.
dapabort(v) == v % 2 = 1
stkerrclr(v) == (v \div 4) % 2 = 1
orunerrclr(v) == (v \div 16) % 2 = 1

\* Ctrl::sticky_orun (bit 1) and Ctrl::sticky_err (bit 5).
sticky_orun(v) == (v \div 2) % 2 = 1
sticky_err(v) == (v \div 32) % 2 = 1

\* A data word returned by the target: bits 1 and 5 are the sticky bits `sb`
\* the target reports, the upper bits identify the data phase (the index of
\* the transfer on the wire within the current API call) that carried it.
\* The target reports sticky bits to a batch that reads CTRL/STAT and nothing
\* else (the engine looks at the data of no other batch) and to the CTRL/STAT
\* read the JTAG executor adds itself.
StickyChoices == {0, 2, 32}
DataWord(slot, sb) == 64 * slot + sb
SlotOf(v) == v \div 64

\* Values a caller writes.
WriteValues == {21}
\* The caller's buffer `values` before raw_read_block, n words long.
InitialBuffer(n) == [i \in 1..n |-> 1]

\* ------------------------------------------------------------ DapTransfer
DapTransferRead(address) ==
    [address |-> address, direction |-> Read, value |-> 0,
     status |-> Pending, idle_cycles_after |-> 0]

DapTransferWrite(address, value) ==
    [address |-> address, direction |-> Write, value |-> value,
     status |-> Pending, idle_cycles_after |-> 0]

is_ap(address) == address \in ApAddresses
\* Every read taken for an AP read.
is_any_read(t) == t.direction = Read
is_ap_read(t) == is_ap(t.address) /\ t.direction = Read
is_ap_write(t) == is_ap(t.address) /\ t.direction = Write
is_write(t) == t.direction = Write
is_abort(t) == t.address = "DP_ABORT" /\ t.direction = Write
\* No transfer taken for an RDBUFF read.
is_rdbuff_never(t) == FALSE
is_rdbuff(t) == t.address = "DP_RDBUFF" /\ t.direction = Read

\* Only an ABORT write taken for an instruction that must not stall.
must_not_stall_abort_only(t) == t.address = "DP_ABORT" /\ t.direction = Write

must_not_stall(t) ==
    LET abort_write == is_abort(t)
        dpidr_read == t.address = "DP_DPIDR" /\ t.direction = Read
        ctrl_stat_read == t.address = "DP_CTRL" /\ t.direction = Read
    IN abort_write \/ dpidr_read \/ ctrl_stat_read

\* ------------------------------------------------------- bits on the wire
\* A u32 or u64 is a sequence of bits, least significant first (TRUE is 1).
RECURSIVE ToBits(_, _)
ToBits(v, n) == IF n = 0 THEN <<>> ELSE <<v % 2 = 1>> \o ToBits(v \div 2, n - 1)

RECURSIVE FromBits(_)
FromBits(bits) ==
    IF bits = <<>> THEN 0
    ELSE (IF Head(bits) THEN 1 ELSE 0) + 2 * FromBits(Tail(bits))

\* u32::count_ones
RECURSIVE count_ones(_)
count_ones(bits) ==
    IF bits = <<>> THEN 0
    ELSE (IF Head(bits) THEN 1 ELSE 0) + count_ones(Tail(bits))

Xor(a, b) == a # b

\* A DapTransfer value as the 32 bits of the u32.
Word(v) == ToBits(v, 32)

\* RegisterAddress::a2_and_3: bits 3:2 of the register's address.
a2_and_3(address) ==
    CASE address \in {"DP_ABORT", "DP_DPIDR", "AP"} -> 0
      [] address \in {"DP_CTRL", "AP_4"} -> 4
      [] address \in {"DP_SELECT", "AP_8"} -> 8
      [] address \in {"DP_RDBUFF", "AP_C"} -> 12
a2(address) == (a2_and_3(address) \div 4) % 2 = 1
a3(address) == (a2_and_3(address) \div 8) % 2 = 1

\* IoSequenceItem
Output(bit) == [kind |-> "Output", bit |-> bit]
Input == [kind |-> "Input", bit |-> FALSE]
add_input_sequence(length) == [i \in 1..length |-> Input]

\* build_swd_transfer; `value` is the 32 bits of TransferType::Write(value).
build_swd_transfer(address, direction, value) ==
    LET ap_n_dp == is_ap(address)
        direction_bit == direction = Read
        request ==
            <<Output(TRUE), Output(ap_n_dp), Output(direction_bit),
              Output(a2(address)), Output(a3(address)),
              Output(Xor(Xor(ap_n_dp, direction_bit), Xor(a2(address), a3(address)))),
              Output(FALSE), Output(TRUE)>>
        turnaround_ack == <<Input>> \o add_input_sequence(3)
    IN request \o turnaround_ack
       \o (IF direction = Write
           THEN <<Input>> \o [i \in 1..32 |-> Output(value[i])]
                \o <<Output(count_ones(value) % 2 = 1)>>
           ELSE add_input_sequence(32) \o <<Input>> \o <<Input>>)

\* DapTransfer::io_sequence, for a transfer whose value is given as bits.
io_sequence(t) ==
    build_swd_transfer(t.address, t.direction, t.value)
    \o [i \in 1..t.idle_cycles_after |-> Output(FALSE)]

\* A response length that leaves out the turnaround bits.
direction_swd_response_length_no_turnaround(direction) ==
    IF direction = Read THEN 8 + 3 + 32 + 1 ELSE 8 + 3 + 32 + 1

\* TransferDirection::swd_response_length and DapTransfer::swd_response_length
direction_swd_response_length(direction) ==
    IF direction = Read THEN 8 + 3 + 32 + 1 + 2 ELSE 8 + 3 + 2 + 32 + 1
swd_response_length(t) == direction_swd_response_length(t.direction) + t.idle_cycles_after

\* A payload with A[3:2] in the wrong order.
jtag_write_payload_swapped(t) ==
    [payload |-> <<t.direction = Read, a3(t.address), a2(t.address)>>
                 \o t.value \o [i \in 1..29 |-> FALSE],
     address |-> IF is_ap(t.address) THEN JTAG_ACCESS_PORT_IR_VALUE
                 ELSE JTAG_DEBUG_PORT_IR_VALUE]

\* The u64 payload and the IR value of DapTransfer::jtag_write, for a
\* transfer whose value is given as bits: value in bits 34:3, A[3:2] in
\* bits 2:1, RnW in bit 0.
jtag_write_payload(t) ==
    IF is_abort(t)
    THEN [payload |-> ToBits(JTAG_ABORT_VALUE, 64), address |-> JTAG_ABORT_IR_VALUE]
    ELSE [payload |-> <<t.direction = Read, a2(t.address), a3(t.address)>>
                      \o t.value \o [i \in 1..29 |-> FALSE],
          address |-> IF is_ap(t.address) THEN JTAG_ACCESS_PORT_IR_VALUE
                      ELSE JTAG_DEBUG_PORT_IR_VALUE]

\* A command that sends every DP transfer, ABORT writes too, through DPACC.
jtag_write_no_abort(t) ==
    [address |-> IF is_ap(t.address) THEN JTAG_ACCESS_PORT_IR_VALUE
                 ELSE JTAG_DEBUG_PORT_IR_VALUE,
     data |-> <<t.direction = Read, a2(t.address), a3(t.address)>>
              \o t.value \o [i \in 1..29 |-> FALSE],
     len |-> JTAG_DR_BIT_LENGTH]

\* DapTransfer::jtag_write: the JtagWriteCommand (without its transform).
jtag_write(t) ==
    LET pa == jtag_write_payload(t)
    IN [address |-> pa.address, data |-> pa.payload, len |-> JTAG_DR_BIT_LENGTH]

\* build_jtag_payload_and_address, used by perform_jtag_transfer.
build_jtag_payload_and_address(t) ==
    IF is_abort(t)
    THEN <<ToBits(JTAG_ABORT_VALUE, 64), JTAG_ABORT_IR_VALUE>>
    ELSE LET address == IF is_ap(t.address) THEN JTAG_ACCESS_PORT_IR_VALUE
                        ELSE JTAG_DEBUG_PORT_IR_VALUE
             port_address == a2_and_3(t.address)
         IN <<<<t.direction = Read,
                 (port_address \div 4) % 2 = 1,
                 (port_address \div 8) % 2 = 1>>
               \o t.value \o [i \in 1..29 |-> FALSE],
              address>>

\* The bits of a DR shift: the first `len` bits of the command's data.
DrBits(command) == SubSeq(command.data, 1, command.len)

\* The transfers a caller can put in a batch: reads of every register, writes
\* to the writable ones.
CallerTransfers ==
    {DapTransferRead(a) : a \in {"DP_DPIDR", "DP_CTRL", "DP_SELECT", "DP_RDBUFF", "AP"}}
    \cup {DapTransferWrite(a, v) : a \in {"DP_ABORT", "DP_SELECT", "AP"}, v \in WriteValues}

Batches == UNION {[1..n -> CallerTransfers] : n \in 1..MaxBatch}

\* ------------------------------------------------ perform_transfers: plan
\* The loop of perform_transfers over the caller's transfers, from index i
\* on: `acc` is (final_transfers, result_indices) built so far.
RECURSIVE PlanLoop(_, _, _, _, _)
PlanLoop(transfers, i, wire_protocol, settings, acc) ==
    IF i > Len(transfers) THEN acc
    ELSE
      LET transfer == transfers[i]
          need_ap_read == is_ap_read(transfer)
          buffered_write == is_ap_write(transfer)
          write_response_pending == is_write(transfer) /\ ~is_abort(transfer)
          orig == [index |-> Len(acc.final) + 1,
                   response_in_next |-> wire_protocol = "Swd"
                                        /\ (need_ap_read \/ write_response_pending)]
          pushed == IF is_write(transfer)
                    THEN [transfer EXCEPT !.idle_cycles_after =
                                           settings.num_idle_cycles_between_writes]
                    ELSE transfer
          has_next == i < Len(transfers)
          next == transfers[i + 1]
          need_extra ==
              IF has_next
              THEN (need_ap_read /\ ~is_ap_read(next))
                   \/ (buffered_write /\ must_not_stall(next))
              ELSE need_ap_read \/ write_response_pending
          extra_idle_cycles ==
              IF has_next
              THEN IF need_ap_read /\ ~is_ap_read(next) THEN 0
                   ELSE settings.idle_cycles_before_write_verify
              ELSE IF ~write_response_pending THEN 0
                   ELSE settings.idle_cycles_before_write_verify
          with_extra ==
              <<[pushed EXCEPT !.idle_cycles_after = @ + extra_idle_cycles],
                DapTransferRead("DP_RDBUFF")>>
          final2 == IF wire_protocol = "Jtag" \/ ~need_extra
                    THEN Append(acc.final, pushed)
                    ELSE acc.final \o with_extra
      IN PlanLoop(transfers, i + 1, wire_protocol, settings,
                  [final |-> final2, indices |-> Append(acc.indices, orig)])

\* The plan without the idle cycles at the end.
PlanNoTail(transfers, wire_protocol, settings) ==
    PlanLoop(transfers, 1, wire_protocol, settings, [final |-> <<>>, indices |-> <<>>])

\* final_transfers and result_indices as perform_transfers hands them to
\* perform_raw_transfers_retry (idle_cycles_after_transfer added to the tail).
Plan(transfers, wire_protocol, settings) ==
    LET p == PlanLoop(transfers, 1, wire_protocol, settings,
                      [final |-> <<>>, indices |-> <<>>])
        n == Len(p.final)
    IN [final |-> [p.final EXCEPT ![n].idle_cycles_after =
                                   @ + settings.idle_cycles_after_transfer],
        indices |-> p.indices]

\* ------------------------------------------------------------ SWD executor
\* What the target puts on the line for one transfer: the three ACK bits
\* (OK, WAIT, FAULT, all high, or a pattern that is none of these) and, for
\* OK, whether the parity bit matches the data.
SwdResponses == {"OK", "OK_BADPARITY", "WAIT", "FAULT", "NOACK", "INVALID"}

\* The three ACK bits of a response, in the order they are sampled.
AckBits(resp) ==
    CASE resp \in {"OK", "OK_BADPARITY"} -> <<TRUE, FALSE, FALSE>>
      [] resp = "WAIT" -> <<FALSE, TRUE, FALSE>>
      [] resp = "FAULT" -> <<FALSE, FALSE, TRUE>>
      [] resp = "NOACK" -> <<TRUE, TRUE, TRUE>>
      [] OTHER -> <<FALSE, FALSE, FALSE>>

\* A parser that does not look at the parity bit.
parse_swd_response_no_parity(ack, parity_matches, direction) ==
    CASE ack = <<TRUE, TRUE, TRUE>> -> NoAcknowledge
      [] ack = <<FALSE, TRUE, FALSE>> -> WaitResponse
      [] ack = <<FALSE, FALSE, TRUE>> -> FaultResponse
      [] ack = <<TRUE, FALSE, FALSE>> -> Ok
      [] OTHER -> ProtocolSwd

\* A parser that takes every ACK it does not know for a missing one.
parse_swd_response_unknown_as_noack(ack, parity_matches, direction) ==
    CASE ack = <<FALSE, TRUE, FALSE>> -> WaitResponse
      [] ack = <<FALSE, FALSE, TRUE>> -> FaultResponse
      [] ack = <<TRUE, FALSE, FALSE>> /\ direction = Read ->
            IF parity_matches THEN Ok ELSE IncorrectParity
      [] ack = <<TRUE, FALSE, FALSE>> /\ direction # Read -> Ok
      [] OTHER -> NoAcknowledge

\* parse_swd_response: the TransferStatus for the ACK bits `ack`;
\* parity_matches tells whether the sampled parity bit equals the parity of
\* the sampled data.
parse_swd_response(ack, parity_matches, direction) ==
    CASE ack = <<TRUE, TRUE, TRUE>> -> NoAcknowledge
      [] ack = <<FALSE, TRUE, FALSE>> -> WaitResponse
      [] ack = <<FALSE, FALSE, TRUE>> -> FaultResponse
      [] ack = <<TRUE, FALSE, FALSE>> /\ direction = Read ->
            IF parity_matches THEN Ok ELSE IncorrectParity
      [] ack = <<TRUE, FALSE, FALSE>> /\ direction # Read -> Ok
      [] OTHER -> ProtocolSwd

\* perform_swd_transfers after swd_io returned: transfer i of the chunk got
\* response resps[i]; its data phase is slot base + i.
perform_swd_transfers(chunk, resps, sb, base) ==
    [i \in 1..Len(chunk) |->
        LET transfer == chunk[i]
            status == parse_swd_response(AckBits(resps[i]), resps[i] # "OK_BADPARITY",
                                         transfer.direction)
        IN IF status = Ok
           THEN [transfer EXCEPT !.status = Ok,
                                 !.value = IF transfer.direction = Read
                                           THEN DataWord(base + i, sb) ELSE 0]
           ELSE [transfer EXCEPT !.status = status]]

\* The acknowledgement sequences the target gives to n transfers: k OK
\* responses, then a first other response e, then the response t it keeps
\* giving to the rest of the sequence.
SwdScenarios(n) ==
    {[i \in 1..n |-> IF i <= k THEN "OK" ELSE IF i = k + 1 THEN e ELSE t] :
        k \in 0..n, e \in SwdResponses \ {"OK"}, t \in {"OK", "WAIT", "FAULT"}}

\* Outcome of one executor call: tag "Ok" (returned Ok(())), "Probe" (a
\* transport error was returned) or "Panic"; the transfers as the executor
\* leaves them; the probe's idle_cycles setting on exit; the number of
\* transfers put on the wire; whether a corrective CTRL/STAT write was sent.
Outcome(tag, transfers, idle, ncmd, corr) ==
    [tag |-> tag, transfers |-> transfers, idle |-> idle, ncmd |-> ncmd, corr |-> corr]

OnlyCtrlReads(chunk) ==
    \A i \in 1..Len(chunk) : chunk[i].address = "DP_CTRL" /\ chunk[i].direction = Read

StickyReported(chunk) == IF OnlyCtrlReads(chunk) THEN StickyChoices ELSE {0}

SwdOutcomes(chunk, probe_idle, base) ==
    {Outcome("Probe", chunk, probe_idle, Len(chunk), FALSE)}
    \cup {Outcome("Ok", perform_swd_transfers(chunk, r, sb, base), probe_idle,
                  Len(chunk), FALSE) :
            r \in SwdScenarios(Len(chunk)),
            sb \in StickyReported(chunk)}

\* ----------------------------------------------------------- JTAG executor
\* The queue without the read that flushes the last transfer's response.
JtagQueueNoFlush(transfers) ==
    transfers
    \o (IF ~is_abort(transfers[Len(transfers)])
        THEN <<DapTransferRead("DP_CTRL"), DapTransferRead("DP_RDBUFF")>> ELSE <<>>)

\* The command queue perform_jtag_transfers builds: one DR write per transfer,
\* then the bookkeeping reads.
JtagQueue(transfers) ==
    LET last == transfers[Len(transfers)]
        last_is_abort == is_abort(last)
        last_is_rdbuff == is_rdbuff(last)
    IN transfers
       \o (IF ~last_is_abort /\ ~last_is_rdbuff
           THEN <<DapTransferRead("DP_RDBUFF")>> ELSE <<>>)
       \o (IF ~last_is_abort
           THEN <<DapTransferRead("DP_CTRL"), DapTransferRead("DP_RDBUFF")>> ELSE <<>>)

RECURSIVE MaxIdle(_, _)
MaxIdle(transfers, i) ==
    IF i > Len(transfers) THEN 0
    ELSE Max(transfers[i].idle_cycles_after, MaxIdle(transfers, i + 1))

\* The idle cycles of the first transfer alone.
batch_idle_cycles_first(transfers) == Min(transfers[1].idle_cycles_after, U8Max)

\* The value handed to set_idle_cycles before the batch:
\* max_idle_cycles.min(255) as u8.
batch_idle_cycles(transfers) == Min(MaxIdle(transfers, 1), U8Max)

\* write_register_batch: commands 1..executed ran and were answered OK/FAULT,
\* then (error /= "none") command executed + 1 failed with a DAP error
\* (WAIT or an unknown status) or with a transport error.  The transform of
\* an ABORT command never reports a DAP error.
JtagBatchRuns(queue) ==
    {[executed |-> Len(queue), error |-> "none"]}
    \cup {[executed |-> c, error |-> e] :
            c \in 0..(Len(queue) - 1), e \in {"Probe"}}
    \cup {[executed |-> c, error |-> e] :
            c \in {x \in 0..(Len(queue) - 1) : ~is_abort(queue[x + 1])},
            e \in {WaitResponse, NoAcknowledge}}

\* The handle kept for the sticky check (the second one popped off results),
\* whether jtag_results holds a U32 for it, and that value: the data shifted
\* out by the command the handle belongs to.
ctrl_value(transfers, run, check_sb, base) ==
    LET q == Len(JtagQueue(transfers))
        ctrl_handle == q - 1
    IN [handle |-> ctrl_handle,
        taken |-> ~is_abort(transfers[Len(transfers)]) /\ ctrl_handle <= run.executed,
        received_value |-> DataWord(base + ctrl_handle, check_sb)]

\* A loop that marks nothing as failed.
mark_failed_never(t) == t

\* The body of the loop that marks OK/FAULT transactions as failed.
mark_failed(t) == IF t.status = Ok THEN [t EXCEPT !.status = FaultResponse] ELSE t

\* The statuses with the failure written from the command after the failed
\* one on.
status_responses_late(q, run) ==
    [j \in 1..q |-> IF j <= run.executed + 1 THEN Ok ELSE run.error]

\* status_responses after write_register_batch: Ok for the commands that
\* ran, the DAP failure for the failed command and every one after it.
status_responses(q, run) ==
    [j \in 1..q |-> IF j <= run.executed THEN Ok ELSE run.error]

perform_jtag_transfers(transfers, run, sb, check_sb, corr_ok, probe_idle, base) ==
    LET n == Len(transfers)
        queue == JtagQueue(transfers)
        q == Len(queue)
        last_is_abort == is_abort(transfers[n])
        batch_idle == batch_idle_cycles(transfers)
        responses == status_responses(q, run)
        \* results left after plucking off the two bookkeeping handles
        kept == IF last_is_abort THEN q ELSE q - 2
        visited(i) == i <= kept - 1
        takes(i) == visited(i) /\ ~is_abort(transfers[i]) /\ ~is_rdbuff(transfers[i])
                    /\ responses[i + 1] = Ok /\ transfers[i].direction = Read
        shifted ==
            [i \in 1..n |->
                LET t == transfers[i]
                    st == IF i + 1 <= q THEN responses[i + 1] ELSE Ok
                IN IF visited(i) /\ (is_abort(t) \/ is_rdbuff(t))
                   THEN [t EXCEPT !.status = Ok]
                   ELSE IF takes(i)
                   THEN [t EXCEPT !.status = st, !.value = DataWord(base + i + 1, sb)]
                   ELSE [t EXCEPT !.status = st]]
        into_u32_panics == \E i \in 1..n : takes(i) /\ is_abort(queue[i + 1])
        \* handle kept for the sticky check: the second one popped
        check == ctrl_value(transfers, run, check_sb, base)
        sticky == check.taken /\ sticky_err(check.received_value)
        faulted == [i \in 1..n |-> mark_failed(shifted[i])]
        sent == IF run.error = "none" THEN q ELSE run.executed + 1
    IN IF run.error = "Probe"
       THEN Outcome("Probe", transfers, batch_idle, sent, FALSE)
       ELSE IF into_u32_panics
       THEN Outcome("Panic", shifted, probe_idle, sent, FALSE)
       ELSE IF ~sticky
       THEN Outcome("Ok", shifted, probe_idle, sent, FALSE)
       ELSE IF corr_ok
       THEN Outcome("Ok", faulted, probe_idle, sent + 1, TRUE)
       ELSE Outcome("Probe", shifted, probe_idle, sent + 1, TRUE)

JtagOutcomes(chunk, probe_idle, base) ==
    UNION {{perform_jtag_transfers(chunk, run, sb, check_sb, corr_ok, probe_idle, base) :
              run \in JtagBatchRuns(JtagQueue(chunk)),
              sb \in StickyReported(chunk),
              check_sb \in {0, 32}} : corr_ok \in BOOLEAN}

\* perform_raw_transfers: every way one executor call on `chunk` can end.
perform_raw_transfers(wire_protocol, chunk, probe_idle, base) ==
    IF wire_protocol = "Swd"
    THEN SwdOutcomes(chunk, probe_idle, base)
    ELSE JtagOutcomes(chunk, probe_idle, base)

\* ------------------------------------------------------------------ state
VARIABLES
    protocol,               \* probe: active_protocol()
    swd_settings,           \* probe: swd_settings()
    idle_cycles,            \* probe: idle_cycles()
    stack,                  \* raw_* / perform_transfers calls in progress
    final_transfers,        \* perform_transfers: final_transfers
    result_indices,         \* perform_transfers: result_indices
    successful_transfers,   \* perform_raw_transfers_retry: successful_transfers
    chunk_start,            \* perform_raw_transfers_retry: start of `chunk`
    retry_idle_cycles,      \* perform_raw_transfers_retry: idle_cycles
    attempt,                \* perform_raw_transfers_retry: loop counter
    hist,                   \* probe I/O done by the current top-level call
    wire,                   \* one encoding or parsing call: its input and result
    wlink,                  \* WchLink: last_dmi_read and its last write_register call
    jtag,                   \* one perform_jtag_transfers call: its batch and result
    clr,                    \* clear_overrun_and_sticky_err calls and the target's flags
    wlink_open,             \* WchLinkFactory::open: the WchLink built and init's result
    fn_call                 \* one call of a function on its own: its input and result

vars == <<protocol, swd_settings, idle_cycles, stack, final_transfers,
          result_indices, successful_transfers, chunk_start, retry_idle_cycles,
          attempt, hist, wire, wlink, jtag, clr, wlink_open, fn_call>>

others == <<jtag, clr, wlink_open, fn_call>>

probe == <<protocol, swd_settings>>
locals == <<final_transfers, result_indices, successful_transfers, chunk_start,
            retry_idle_cycles, attempt>>

\* SwdSettings values the probe is configured with: every number of retries
\* up to the bound, without idle cycles between writes and, for up to one
\* retry, with them, fewer and more of them than the retries may add.
SwdSettings(w, r) ==
    [num_idle_cycles_between_writes |-> w,
     idle_cycles_before_write_verify |-> 3,
     idle_cycles_after_transfer |-> 1,
     num_retries_after_wait |-> r,
     max_retry_idle_cycles_after_wait |-> 3]

SettingsChoices ==
    {SwdSettings(0, r) : r \in 0..MaxRetries}
    \cup {SwdSettings(2, r) : r \in 0..1}
    \cup {SwdSettings(4, 1)}

NoResult == [tag |-> "none", err |-> "none", value |-> 0]
ResultOk(v) == [tag |-> "Ok", err |-> "none", value |-> v]
ResultErr(e) == [tag |-> "Err", err |-> e, value |-> 0]
ResultPanic == [tag |-> "Panic", err |-> "none", value |-> 0]

Frame(op, address, transfers, values) ==
    [op |-> op, address |-> address, transfers |-> transfers, values |-> values,
     pc |-> "retry", result |-> NoResult]

NoHist ==
    [sent |-> 0, exec |-> 0, waits |-> 0, stkclr |-> 0, dapabort |-> 0,
     lastOp |-> "none", abortAck |-> "none", diag |-> 0,
     faultAt |-> 0, clearAt |-> 0, clearSentAt |-> 0, diagClean |-> FALSE,
     fatal |-> "none", retryResult |-> "none", allOk |-> TRUE,
     abortsSince |-> 0, abortValue |-> 0]

\* WchLink after construction: last_dmi_read is None (the empty tuple) and
\* write_register has not been called.
NoWlink ==
    [last_dmi_read |-> <<>>, calls |-> 0,
     call |-> [address |-> 0, val |-> 0, rv |-> <<>>, len |-> 0],
     sent |-> <<>>, ret |-> [kind |-> "none", bits |-> <<>>], slept |-> FALSE,
     good_read |-> <<>>, good_reads |-> 0]

\* No perform_jtag_transfers call.
NoJtag == [stage |-> "none", transfers |-> <<>>, commands |-> <<>>, run |-> <<>>,
           check |-> <<>>, out |-> <<>>, batch_calls |-> 0, set_idle |-> 0]

\* No clear_overrun_and_sticky_err call, a target without sticky flags.
NoClr == [sticky |-> {}, calls |-> <<>>]

\* The WchLink that WchLinkFactory::open builds, before init.
NoWlinkOpen ==
    [name |-> <<"WCH-Link">>, variant |-> "Ch549", v_major |-> 0, v_minor |-> 0,
     result |-> "none"]

\* No function called on its own.
NoFnCall == [stage |-> "none", input |-> <<>>, output |-> <<>>]

\* No encoding or parsing call.
NoWire == [stage |-> "none", t |-> <<>>, resp |-> <<>>, seq |-> <<>>,
           command |-> <<>>, single |-> <<>>, parsed |-> <<>>]

Init ==
    /\ wire = NoWire
    /\ wlink = NoWlink
    /\ jtag = NoJtag
    /\ clr = NoClr
    /\ wlink_open = NoWlinkOpen
    /\ fn_call = NoFnCall
    /\ protocol \in {"Swd", "Jtag"}
    /\ swd_settings \in SettingsChoices
    /\ idle_cycles = 0
    /\ stack = <<>>
    /\ final_transfers = <<>>
    /\ result_indices = <<>>
    /\ successful_transfers = 0
    /\ chunk_start = 0
    /\ retry_idle_cycles = 0
    /\ attempt = 0
    /\ hist = NoHist

Top == stack[Len(stack)]
Running == stack # <<>>
SetTop(frame) == [stack EXCEPT ![Len(stack)] = frame]

\* ----------------------------------------------- perform_transfers: entry
\* A raw_* function (or a direct caller) calls perform_transfers: the plan
\* is built and perform_raw_transfers_retry starts.  `h` is the I/O record
\* the call starts with.
EnterPerformTransfers(frame, below, h) ==
    IF frame.transfers = <<>>
    THEN /\ stack' = Append(below, [frame EXCEPT !.pc = "ret", !.result = ResultPanic])
         /\ hist' = h
         /\ UNCHANGED locals
    ELSE LET plan == Plan(frame.transfers, protocol, swd_settings)
         IN /\ stack' = Append(below, frame)
            /\ final_transfers' = plan.final
            /\ result_indices' = plan.indices
            /\ successful_transfers' = 0
            /\ chunk_start' = 0
            /\ retry_idle_cycles' = Max(1, swd_settings.num_idle_cycles_between_writes)
            /\ attempt' = 0
            /\ hist' = [h EXCEPT !.exec = 0, !.waits = 0, !.stkclr = 0, !.dapabort = 0,
                                  !.fatal = "none", !.retryResult = "none",
                                  !.abortsSince = 0]

raw_read_register ==
    /\ ~Running
    /\ \E address \in Addresses :
         EnterPerformTransfers(
            Frame("raw_read_register", address, <<DapTransferRead(address)>>, <<>>),
            <<>>, NoHist)
    /\ UNCHANGED <<others, wlink, wire, probe, idle_cycles>>

raw_write_register ==
    /\ ~Running
    /\ \E address \in Addresses, value \in WriteValues :
         EnterPerformTransfers(
            Frame("raw_write_register", address,
                  <<DapTransferWrite(address, value)>>, <<>>),
            <<>>, NoHist)
    /\ UNCHANGED <<others, wlink, wire, probe, idle_cycles>>

raw_read_block ==
    /\ ~Running
    /\ \E address \in Addresses, n \in 0..MaxBatch :
         EnterPerformTransfers(
            Frame("raw_read_block", address,
                  [i \in 1..n |-> DapTransferRead(address)],
                  InitialBuffer(n)),
            <<>>, NoHist)
    /\ UNCHANGED <<others, wlink, wire, probe, idle_cycles>>

raw_write_block ==
    /\ ~Running
    /\ \E address \in Addresses, n \in 0..MaxBatch, value \in WriteValues :
         EnterPerformTransfers(
            Frame("raw_write_block", address,
                  [i \in 1..n |-> DapTransferWrite(address, value)],
                  [i \in 1..n |-> value]),
            <<>>, NoHist)
    /\ UNCHANGED <<others, wlink, wire, probe, idle_cycles>>

\* perform_transfers called directly on a mixed batch, as the unit tests do.
perform_transfers ==
    /\ ~Running
    /\ \E transfers \in Batches :
         EnterPerformTransfers(Frame("perform_transfers", "none", transfers, <<>>),
                               <<>>, NoHist)
    /\ UNCHANGED <<others, wlink, wire, probe, idle_cycles>>

\* ------------------------------------------- perform_transfers: results
\* The response index taken to be the transfer's own index.
ResponseIdxOwn(orig) == orig.index

\* response_idx of the result loop.
ResponseIdx(orig) == orig.index + (IF orig.response_in_next THEN 1 ELSE 0)

\* The indexing final_transfers[..] of the result loop is in bounds.
ProjectInBounds(transfers, final, indices) ==
    \A i \in 1..Len(transfers) :
        LET orig == indices[i]
            response_idx == ResponseIdx(orig)
        IN /\ orig.index <= Len(final)
           /\ (orig.response_in_next /\ final[orig.index].status = Ok)
                 => response_idx <= Len(final)
           /\ transfers[i].direction = Read => response_idx <= Len(final)

\* A result loop that hands back the executed transfers themselves.
ProjectWhole(transfers, final, indices) ==
    [i \in 1..Len(transfers) |-> final[ResponseIdx(indices[i])]]

\* The result loop of perform_transfers.
Project(transfers, final, indices) ==
    [i \in 1..Len(transfers) |->
        LET orig == indices[i]
            response_idx == ResponseIdx(orig)
            first == final[orig.index].status
            status == IF orig.response_in_next /\ first = Ok
                      THEN final[response_idx].status ELSE first
        IN [transfers[i] EXCEPT
              !.status = status,
              !.value = IF transfers[i].direction = Read
                        THEN final[response_idx].value ELSE @]]

\* perform_raw_transfers_retry returned Ok: perform_transfers copies the
\* results back and returns Ok to `frame`.
Returned(frame, final) ==
    IF ~ProjectInBounds(frame.transfers, final, result_indices)
    THEN [frame EXCEPT !.pc = "ret", !.result = ResultPanic]
    ELSE IF frame.op = "perform_transfers"
    THEN [frame EXCEPT !.transfers = Project(frame.transfers, final, result_indices),
                       !.pc = "ret", !.result = ResultOk(0)]
    ELSE [frame EXCEPT !.transfers = Project(frame.transfers, final, result_indices),
                       !.pc = "match"]

\* An error returned with `?` from perform_transfers and from the raw_* caller.
ReturnErr(frame, e) == [frame EXCEPT !.pc = "ret", !.result = ResultErr(e)]

\* Number of Ok statuses, leading or not.
CountOk(chunk) == Cardinality({i \in 1..Len(chunk) : chunk[i].status = Ok})

\* Number of leading Ok statuses.
RECURSIVE LeadingOk(_)
LeadingOk(chunk) ==
    IF chunk = <<>> \/ Head(chunk).status # Ok THEN 0
    ELSE 1 + LeadingOk(Tail(chunk))

HasStatus(chunk, st) == \E i \in 1..Len(chunk) : chunk[i].status = st

\* The loop bound taken inclusive: one iteration too many.
LoopContinuesInclusive(iteration, num_retries) == iteration <= num_retries

\* The loop `for _ in 0..num_retries` has another iteration to run.
LoopContinues(iteration, num_retries) == iteration < num_retries

\* The walk without its WAIT arm: a WAIT is left to the caller like any other
\* failure.
WalkArmNoRetry(status) ==
    CASE status = Ok -> "count"
      [] OTHER -> "stop"

\* The walk taking every failure for a WAIT.
WalkArmRetryAll(status) ==
    CASE status = Ok -> "count"
      [] OTHER -> "retry"

\* The walk retrying after a FAULT as after a WAIT.
WalkArmRetryFault(status) ==
    CASE status = Ok -> "count"
      [] status \in {WaitResponse, FaultResponse} -> "retry"
      [] OTHER -> "stop"

\* The arms of the match on a transfer's status in the walk over the chunk:
\* count it, retry the rest, or stop and leave the statuses to the caller.
WalkArm(status) ==
    CASE status = Ok -> "count"
      [] status = WaitResponse -> "retry"
      [] OTHER -> "stop"

\* The timeout writing the sticky-clear value instead of DAPABORT.
TimeoutAbortValueClears == Abort(FALSE, TRUE, TRUE)

\* The ABORT value written when the loop ran out of iterations.
TimeoutAbortValue == Abort(TRUE, FALSE, FALSE)

\* An ABORT value that clears the sticky error flag alone.
ClearAbortValueStickyOnly == Abort(FALSE, TRUE, FALSE)

\* The ABORT value written by clear_overrun_and_sticky_err.
ClearAbortValue == Abort(FALSE, TRUE, TRUE)

\* The number whose bits, least significant first, the items of an
\* IoSequence carry.
RECURSIVE DrivenValue(_)
DrivenValue(items) ==
    IF items = <<>> THEN 0
    ELSE (IF Head(items).bit THEN 1 ELSE 0) + 2 * DrivenValue(Tail(items))

\* The 32-bit value the target receives for transfer t (a value below 2^31):
\* on SWD the data bits driven after the ACK, on JTAG bits 34:3 of the DR.
WireValue(wire_protocol, t) ==
    LET tb == [t EXCEPT !.value = Word(@)]
    IN IF wire_protocol = "Swd"
       THEN DrivenValue(SubSeq(io_sequence(tb), 14, 45))
       ELSE FromBits(SubSeq(DrBits(jtag_write(tb)), 4, JTAG_DR_BIT_LENGTH))

\* --------------------------------------------- perform_raw_transfers_retry
\* One iteration of the retry loop: the executor runs on the chunk and the
\* statuses are walked up to the first that is not Ok.
Attempt ==
    /\ Running
    /\ Top.pc = "retry"
    /\ LoopContinues(attempt, swd_settings.num_retries_after_wait)
    /\ LET start == successful_transfers
           chunk == SubSeq(final_transfers, start + 1, Len(final_transfers))
       IN IF chunk = <<>>
          THEN /\ stack' = SetTop([Top EXCEPT !.pc = "ret", !.result = ResultPanic])
               /\ UNCHANGED <<others, wlink, wire, probe, idle_cycles, locals, hist>>
          ELSE \E out \in perform_raw_transfers(protocol, chunk, idle_cycles, hist.sent) :
                 LET newfinal == SubSeq(final_transfers, 1, start) \o out.transfers
                     k == LeadingOk(out.transfers)
                     first == IF k < Len(chunk) THEN out.transfers[k + 1].status ELSE Ok
                     now == hist.sent + out.ncmd
                 IN /\ final_transfers' = newfinal
                    /\ idle_cycles' = out.idle
                    /\ chunk_start' = start
                    /\ hist' = [hist EXCEPT
                                  !.sent = now,
                                  !.exec = @ + 1,
                                  !.waits = IF out.tag = "Ok" /\ first = WaitResponse
                                            THEN @ + 1 ELSE @,
                                  !.fatal = IF out.tag = "Ok" /\ first \in FatalErrors
                                            THEN first ELSE "none",
                                  !.lastOp = IF out.corr THEN "corr" ELSE "exec",
                                  !.abortsSince = 0,
                                  !.allOk = @ /\ out.tag = "Ok" /\ k = Len(chunk),
                                  !.retryResult =
                                      IF out.tag = "Probe" THEN "Err"
                                      ELSE IF out.tag = "Panic" THEN "Panic"
                                      ELSE IF WalkArm(first) = "retry" THEN "none"
                                      ELSE "Ok",
                                  !.faultAt = IF out.tag = "Ok" /\ first = FaultResponse
                                              THEN now ELSE @]
                    /\ IF out.tag = "Probe"
                       THEN /\ stack' = SetTop(ReturnErr(Top, "Probe"))
                            /\ UNCHANGED successful_transfers
                       ELSE IF out.tag = "Panic"
                       THEN /\ stack' = SetTop([Top EXCEPT !.pc = "ret",
                                                           !.result = ResultPanic])
                            /\ UNCHANGED successful_transfers
                       ELSE IF WalkArm(first) = "retry"
                       THEN /\ stack' = SetTop([Top EXCEPT !.pc = "abort"])
                            /\ successful_transfers' = start + k
                       ELSE /\ stack' = SetTop(Returned(Top, newfinal))
                            /\ successful_transfers' = start + k
                    /\ UNCHANGED <<others, wlink, wire, probe, result_indices, retry_idle_cycles, attempt>>

\* The ABORT write sent twice in one batch.
write_dp_register_twice(value) ==
    perform_raw_transfers(
        protocol,
        [i \in 1..2 |->
            [DapTransferWrite("DP_ABORT", value) EXCEPT
               !.idle_cycles_after = swd_settings.idle_cycles_before_write_verify
                                     + swd_settings.num_idle_cycles_between_writes]],
        idle_cycles, hist.sent)

\* write_dp_register(Abort): every way the single ABORT write can end.
write_dp_register(value) ==
    perform_raw_transfers(
        protocol,
        <<[DapTransferWrite("DP_ABORT", value) EXCEPT
             !.idle_cycles_after = swd_settings.idle_cycles_before_write_verify
                                   + swd_settings.num_idle_cycles_between_writes]>>,
        idle_cycles, hist.sent)

\* Its result: "Probe", Ok, or the DapError of the transfer.
WriteDpResult(out) == IF out.tag = "Probe" THEN "Probe" ELSE out.transfers[1].status

\* The I/O record after the ABORT write of `value` at `site`: the WAIT arm of
\* the retry loop, the timeout after the loop, or the FAULT arm of a raw_*
\* function.
AfterAbort(value, site, out) ==
    LET now == hist.sent + 1
        res == WriteDpResult(out)
        clears == stkerrclr(value) /\ orunerrclr(value)
    IN [hist EXCEPT
          !.sent = now,
          !.lastOp = IF dapabort(value) THEN "dapabort"
                     ELSE IF site = "fault_arm" THEN "clear" ELSE "stkclr",
          !.abortAck = res,
          !.abortsSince = @ + 1,
          !.abortValue = value,
          !.allOk = @ /\ res = Ok,
          !.retryResult = IF site = "fault_arm" THEN @
                          ELSE IF res # Ok THEN "Err"
                          ELSE IF site = "timeout" THEN "Ok" ELSE @,
          !.stkclr = IF clears /\ site # "fault_arm" THEN @ + 1 ELSE @,
          !.dapabort = IF dapabort(value) THEN @ + 1 ELSE @,
          !.faultAt = IF res = FaultResponse THEN now ELSE @,
          !.clearSentAt = IF clears THEN now ELSE @,
          !.clearAt = IF clears /\ res = Ok THEN now ELSE @]

\* The body of the loop over the chunk in the WAIT arm: a write gets
\* `idle` more idle cycles.
increase_idle_cycles(transfer, idle) ==
    IF is_write(transfer)
    THEN [transfer EXCEPT !.idle_cycles_after = @ + idle]
    ELSE transfer

\* The WAIT arm of the loop: clear_overrun_and_sticky_err, then more idle
\* cycles for the writes of the chunk, then the next iteration.
RetryAbort ==
    /\ Running
    /\ Top.pc = "abort"
    /\ \E out \in write_dp_register(ClearAbortValue) :
         /\ idle_cycles' = out.idle
         /\ hist' = AfterAbort(ClearAbortValue, "wait_arm", out)
         /\ IF WriteDpResult(out) = Ok
            THEN /\ final_transfers' =
                       [i \in 1..Len(final_transfers) |->
                           IF i > chunk_start
                           THEN increase_idle_cycles(final_transfers[i],
                                                     retry_idle_cycles)
                           ELSE final_transfers[i]]
                 /\ retry_idle_cycles' =
                       Min(swd_settings.max_retry_idle_cycles_after_wait,
                           2 * retry_idle_cycles)
                 /\ attempt' = attempt + 1
                 /\ stack' = SetTop([Top EXCEPT !.pc = "retry"])
            ELSE /\ stack' = SetTop(ReturnErr(Top, WriteDpResult(out)))
                 /\ UNCHANGED <<final_transfers, retry_idle_cycles, attempt>>
    /\ UNCHANGED <<others, wlink, wire, probe, result_indices, successful_transfers, chunk_start>>

\* The loop ran out of iterations: ABORT with DAPABORT, then Ok.
TimeoutAbort ==
    /\ Running
    /\ Top.pc = "retry"
    /\ ~LoopContinues(attempt, swd_settings.num_retries_after_wait)
    /\ \E out \in write_dp_register(TimeoutAbortValue) :
         /\ idle_cycles' = out.idle
         /\ hist' = AfterAbort(TimeoutAbortValue, "timeout", out)
         /\ stack' = SetTop(IF WriteDpResult(out) = Ok
                            THEN Returned(Top, final_transfers)
                            ELSE ReturnErr(Top, WriteDpResult(out)))
    /\ UNCHANGED <<others, wlink, wire, probe, locals>>

\* ------------------------------------------------------------ RawDapAccess
\* The check on the address left out of the FAULT arm.
IsCtrlPortNever(address) == FALSE

\* `address == CTRL_PORT` in the FAULT arm of raw_read_register.
IsCtrlPort(address) == address = CTRL_PORT

\* The check that looks at sticky_err alone.
StickySetErrOnly(ctrl) == sticky_err(ctrl)

\* `ctrl.sticky_orun() || ctrl.sticky_err()` in the FAULT arms.
StickySet(ctrl) == sticky_orun(ctrl) \/ sticky_err(ctrl)

\* raw_read_register after perform_transfers returned Ok: the match on the
\* transfer's status, up to the next probe I/O.
ReadRegisterResult ==
    /\ Running
    /\ Top.pc = "match"
    /\ Top.op = "raw_read_register"
    /\ LET transfer == Top.transfers[1]
       IN CASE transfer.status = Ok ->
                 /\ stack' = SetTop([Top EXCEPT !.pc = "ret",
                                                !.result = ResultOk(transfer.value)])
                 /\ UNCHANGED <<locals, hist>>
            [] transfer.status = FaultResponse /\ IsCtrlPort(Top.address) ->
                 /\ stack' = SetTop([Top EXCEPT !.pc = "clear"])
                 /\ UNCHANGED <<locals, hist>>
            [] transfer.status = FaultResponse /\ ~IsCtrlPort(Top.address) ->
                 EnterPerformTransfers(
                    Frame("raw_read_register", CTRL_PORT,
                          <<DapTransferRead(CTRL_PORT)>>, <<>>),
                    SetTop([Top EXCEPT !.pc = "diag"]),
                    [hist EXCEPT !.diag = @ + 1])
            [] transfer.status = Pending ->
                 /\ stack' = SetTop([Top EXCEPT !.pc = "ret", !.result = ResultPanic])
                 /\ UNCHANGED <<locals, hist>>
            [] OTHER ->
                 /\ stack' = SetTop(ReturnErr(Top, transfer.status))
                 /\ UNCHANGED <<locals, hist>>
    /\ UNCHANGED <<others, wlink, wire, probe, idle_cycles>>

\* raw_write_register after perform_transfers returned Ok.
WriteRegisterResult ==
    /\ Running
    /\ Top.pc = "match"
    /\ Top.op = "raw_write_register"
    /\ LET transfer == Top.transfers[1]
       IN CASE transfer.status = Ok ->
                 /\ stack' = SetTop([Top EXCEPT !.pc = "ret", !.result = ResultOk(0)])
                 /\ UNCHANGED <<locals, hist>>
            [] transfer.status = FaultResponse ->
                 EnterPerformTransfers(
                    Frame("raw_read_register", CTRL_PORT,
                          <<DapTransferRead(CTRL_PORT)>>, <<>>),
                    SetTop([Top EXCEPT !.pc = "diag"]),
                    [hist EXCEPT !.diag = @ + 1])
            [] transfer.status = Pending ->
                 /\ stack' = SetTop([Top EXCEPT !.pc = "ret", !.result = ResultPanic])
                 /\ UNCHANGED <<locals, hist>>
            [] OTHER ->
                 /\ stack' = SetTop(ReturnErr(Top, transfer.status))
                 /\ UNCHANGED <<locals, hist>>
    /\ UNCHANGED <<others, wlink, wire, probe, idle_cycles>>

\* raw_read_block / raw_write_block after perform_transfers returned Ok: the
\* loop over the transfers up to the first whose status is not Ok.
BlockResult ==
    /\ Running
    /\ Top.pc = "match"
    /\ Top.op \in {"raw_read_block", "raw_write_block"}
    /\ LET transfers == Top.transfers
           k == LeadingOk(transfers)
           values == IF Top.op = "raw_read_block"
                     THEN [i \in 1..Len(transfers) |->
                             IF i <= k THEN transfers[i].value ELSE Top.values[i]]
                     ELSE Top.values
           stored == [Top EXCEPT !.values = values]
       IN stack' = SetTop(
            IF k = Len(transfers)
            THEN [stored EXCEPT !.pc = "ret", !.result = ResultOk(0)]
            ELSE IF transfers[k + 1].status = Pending
            THEN [stored EXCEPT !.pc = "ret", !.result = ResultPanic]
            ELSE IF transfers[k + 1].status = FaultResponse
            THEN [stored EXCEPT !.pc = "clear"]
            ELSE ReturnErr(stored, transfers[k + 1].status))
    /\ UNCHANGED <<others, wlink, wire, probe, idle_cycles, locals, hist>>

\* clear_overrun_and_sticky_err in the FAULT arm of a raw_* function, then
\* the FaultResponse (or the error of the ABORT write) is returned.
FaultClear ==
    /\ Running
    /\ Top.pc = "clear"
    /\ \E out \in write_dp_register(ClearAbortValue) :
         /\ idle_cycles' = out.idle
         /\ hist' = AfterAbort(ClearAbortValue, "fault_arm", out)
         /\ stack' = SetTop(ReturnErr(Top, IF WriteDpResult(out) = Ok
                                           THEN FaultResponse
                                           ELSE WriteDpResult(out)))
    /\ UNCHANGED <<others, wlink, wire, probe, locals>>

\* The nested raw_read_register(CTRL_PORT) returns into the FAULT arm of the
\* raw_* function that called it.
DiagReturn ==
    /\ Len(stack) >= 2
    /\ Top.pc = "ret"
    /\ LET caller == stack[Len(stack) - 1]
           below == SubSeq(stack, 1, Len(stack) - 2)
           response == Top.result
           clean == response.tag = "Ok" /\ ~sticky_orun(response.value)
                                        /\ ~sticky_err(response.value)
       IN /\ stack' = Append(below,
                CASE response.tag = "Ok" /\ StickySet(response.value) ->
                        [caller EXCEPT !.pc = "clear"]
                  [] response.tag = "Ok" /\ ~StickySet(response.value) ->
                        ReturnErr(caller, FaultResponse)
                  [] OTHER -> [caller EXCEPT !.pc = "ret", !.result = response])
          /\ hist' = [hist EXCEPT !.diagClean = clean]
    /\ UNCHANGED <<others, wlink, wire, probe, idle_cycles, locals>>

\* The top-level call returns to its caller; its locals are gone.
Return ==
    /\ Len(stack) = 1
    /\ Top.pc = "ret"
    /\ stack' = <<>>
    /\ final_transfers' = <<>>
    /\ result_indices' = <<>>
    /\ successful_transfers' = 0
    /\ chunk_start' = 0
    /\ retry_idle_cycles' = 0
    /\ attempt' = 0
    /\ hist' = NoHist
    /\ UNCHANGED <<others, wlink, wire, probe, idle_cycles>>

Next ==
    \/ raw_read_register
    \/ raw_write_register
    \/ raw_read_block
    \/ raw_write_block
    \/ perform_transfers
    \/ Attempt
    \/ RetryAbort
    \/ TimeoutAbort
    \/ ReadRegisterResult
    \/ WriteRegisterResult
    \/ BlockResult
    \/ FaultClear
    \/ DiagReturn
    \/ Return

Spec == Init /\ [][Next]_vars

\* The program runs to the end of a call once it is entered; the caller is
\* free never to call again.
Step ==
    \/ Attempt
    \/ RetryAbort
    \/ TimeoutAbort
    \/ ReadRegisterResult
    \/ WriteRegisterResult
    \/ BlockResult
    \/ FaultClear
    \/ DiagReturn
    \/ Return

FairSpec == Spec /\ WF_vars(Step)

TypeOK ==
    /\ protocol \in {"Swd", "Jtag"}
    /\ swd_settings \in SettingsChoices
    /\ idle_cycles \in 0..U8Max
    /\ successful_transfers \in 0..Len(final_transfers)
    /\ \A i \in 1..Len(stack) : stack[i].pc \in {"retry", "abort", "match", "diag", "clear", "ret"}

\* ------------------------------------------------- encoding and parsing
\* The largest idle_cycles_after of an encoded transfer.
MaxIdleCycles == 2

\* 32-bit values: zero, all ones, every single bit, every single bit
\* missing, and the values below 16.
SampleWords ==
    {[i \in 1..32 |-> FALSE], [i \in 1..32 |-> TRUE]}
    \cup {[i \in 1..32 |-> i = b] : b \in 1..32}
    \cup {[i \in 1..32 |-> i # b] : b \in 1..32}
    \cup {Word(v) : v \in 0..15}

\* The transfers handed to the encoders.
WireTransfers ==
    [address : DpAddresses \cup ApAddresses, direction : {Read, Write},
     value : SampleWords, status : {Pending}, idle_cycles_after : 0..MaxIdleCycles]

\* The bits sampled from the target for one transfer, from the response
\* offset on: three ACK bits, 32 data bits, the parity bit, the turnaround.
WireResponses ==
    {ack \o data \o <<parity, FALSE>> :
        ack \in [1..3 -> BOOLEAN], data \in SampleWords, parity \in BOOLEAN}

\* bits_to_byte: the first 32 bits, least significant first.
bits_to_byte(bits) == SubSeq(bits, 1, 32)

\* parse_swd_response on the sampled bits: Err(status), or Ok(value) when
\* status is Ok.
parse_swd_response_bits(resp, direction) ==
    LET ack == SubSeq(resp, 1, 3)
        response == SubSeq(resp, 4, Len(resp))
        value == bits_to_byte(response)
        parity_matches == (count_ones(value) % 2 = 1) = response[33]
        status == parse_swd_response(ack, parity_matches, direction)
    IN [status |-> status,
        value |-> IF status # Ok THEN <<>>
                  ELSE IF direction = Read THEN value ELSE Word(0)]

\* The DR shift of perform_jtag_transfer: write_register(address, data,
\* JTAG_DR_BIT_LENGTH).
perform_jtag_transfer_shift(t) ==
    LET pa == build_jtag_payload_and_address(t)
    IN [address |-> pa[2], data |-> pa[1], len |-> JTAG_DR_BIT_LENGTH]

WireInit ==
    /\ wlink = NoWlink
    /\ jtag = NoJtag
    /\ clr = NoClr
    /\ wlink_open = NoWlinkOpen
    /\ fn_call = NoFnCall
    /\ wire \in {[NoWire EXCEPT !.stage = "transfer", !.t = t] : t \in WireTransfers}
              \cup {[NoWire EXCEPT !.stage = "response", !.resp = r,
                                   !.t = [direction |-> d]] :
                       r \in WireResponses, d \in {Read, Write}}
    /\ protocol = "Swd"
    /\ swd_settings = SwdSettings(0, 0)
    /\ idle_cycles = 0
    /\ stack = <<>>
    /\ final_transfers = <<>>
    /\ result_indices = <<>>
    /\ successful_transfers = 0
    /\ chunk_start = 0
    /\ retry_idle_cycles = 0
    /\ attempt = 0
    /\ hist = NoHist

engine == <<protocol, swd_settings, idle_cycles, stack, final_transfers,
            result_indices, successful_transfers, chunk_start, retry_idle_cycles,
            attempt, hist>>

\* DapTransfer::io_sequence is called on the transfer.
EncodeSwd ==
    /\ wire.stage = "transfer"
    /\ wire' = [wire EXCEPT !.stage = "swd", !.seq = io_sequence(wire.t)]
    /\ UNCHANGED <<engine, wlink, others>>

\* DapTransfer::jtag_write and build_jtag_payload_and_address are called on
\* the transfer.
EncodeJtag ==
    /\ wire.stage = "transfer"
    /\ wire' = [wire EXCEPT !.stage = "jtag",
                            !.command = jtag_write(wire.t),
                            !.single = perform_jtag_transfer_shift(wire.t)]
    /\ UNCHANGED <<engine, wlink, others>>

\* parse_swd_response is called on the sampled bits.
ParseSwd ==
    /\ wire.stage = "response"
    /\ wire' = [wire EXCEPT !.stage = "parsed",
                            !.parsed = parse_swd_response_bits(wire.resp, wire.t.direction)]
    /\ UNCHANGED <<engine, wlink, others>>

WireNext == EncodeSwd \/ EncodeJtag \/ ParseSwd

WireSpec == WireInit /\ [][WireNext]_vars

\* ------------------------------------------------------------ WCH-Link
DMI_VALUE_BIT_OFFSET == 2
DMI_ADDRESS_BIT_OFFSET == 34
DMI_OP_NOP == 0
DMI_OP_READ == 1
DMI_OP_WRITE == 2
REG_BYPASS_ADDRESS == 31
REG_DTMCS_ADDRESS == 16
REG_DMI_ADDRESS == 17
DTMCS_DMIRESET_MASK == 65536
DTMCS_DMIHARDRESET_MASK == 131072

\* The number of write_register calls made on one WchLink.
MaxCalls == 3

\* val & mask != 0, for a mask of one bit.
BitSet(val, mask) == (val \div mask) % 2 = 1

\* The DTMCS values written: neither reset bit, each, both, and another bit.
DtmcsValues == {0, 1, DTMCS_DMIRESET_MASK, DTMCS_DMIHARDRESET_MASK,
                DTMCS_DMIRESET_MASK + DTMCS_DMIHARDRESET_MASK}

\* The DMI register values written: op in bits 1:0, data in bits 33:2, the
\* address in bits 40:34.
DmiAddresses == {0, 16, 80}
DmiValues == {Word(0), Word(1073741825)}
DmiRegisterValues ==
    {ToBits(op, 2) \o value \o ToBits(addr, 7) :
        op \in 0..3, value \in DmiValues, addr \in DmiAddresses}

\* What the device answers to a command: an error, or (addr, data, op) with
\* op 0 (success) or 3 (busy).
UsbError == [ok |-> FALSE, addr |-> 0, data |-> Word(0), op |-> 0]
UsbOutcomes ==
    {UsbError} \cup [ok : {TRUE}, addr : {0, 16}, data : {Word(0), Word(5)}, op : {0, 3}]

\* commands::DmiOp
DmiOpRead(addr) == [cmd |-> "read", addr |-> addr, data |-> Word(0)]
DmiOpWrite(addr, data) == [cmd |-> "write", addr |-> addr, data |-> data]
DmiOpNop == [cmd |-> "nop", addr |-> 0, data |-> Word(0)]

\* device.send_command in dmi_op_read, dmi_op_write and dmi_op_nop: the
\* command goes out over USB, `out` is the device's answer.
send_command(w, command, out) ==
    [w EXCEPT !.sent = Append(@, [command |-> command, ok |-> out.ok])]

\* write_register returns: Ok(bits), Err(from USB), Err(UnsupportedOperation),
\* or it panics.
Returns(w, kind, bits) == [w EXCEPT !.ret = [kind |-> kind, bits |-> bits]]

\* bitvec![0; len] with ret[0..8] = 0x71
DtmcsBits(len) == [i \in 1..len |-> IF i <= 8 THEN ToBits(113, 8)[i] ELSE FALSE]

\* A check that never sees DMIRESET.
dmireset_requested_never(val) == FALSE

\* val & DTMCS_DMIRESET_MASK != 0
dmireset_requested(val) == BitSet(val, DTMCS_DMIRESET_MASK)

\* write_register, REG_DTMCS_ADDRESS arm.
write_dtmcs(w, val, len, out1, out2) ==
    IF dmireset_requested(val)
    THEN LET w1 == send_command(w, DmiOpWrite(16, Word(0)), out1)
             w2 == send_command(w1, DmiOpWrite(16, Word(1)), out2)
         IN IF ~out1.ok THEN Returns(w1, "Usb", <<>>)
            ELSE IF ~out2.ok THEN Returns(w2, "Usb", <<>>)
            ELSE Returns(w2, "Ok", DtmcsBits(len))
    ELSE IF BitSet(val, DTMCS_DMIHARDRESET_MASK)
    THEN Returns(w, "UnsupportedOperation", <<>>)
    ELSE Returns(w, "Ok", DtmcsBits(len))

\* (addr << DMI_ADDRESS_BIT_OFFSET) | (data << DMI_VALUE_BIT_OFFSET) | op as
\* the 128 bits returned, for op below 4.
PackDmi(addr, data, op) ==
    ToBits(op, DMI_VALUE_BIT_OFFSET) \o data \o ToBits(addr, 8)
    \o [i \in 1..(128 - DMI_ADDRESS_BIT_OFFSET - 8) |-> FALSE]

\* A NOP that always goes to the device.
nop_is_cached_never(dmi_addr, dmi_value) == FALSE

\* dmi_addr == 0 && dmi_value == 0
nop_is_cached(dmi_addr, dmi_value) == dmi_addr = 0 /\ dmi_value = Word(0)

\* write_register, REG_DMI_ADDRESS arm.
write_dmi(w, rv, len, out) ==
    IF len # 41 THEN Returns(w, "Panic", <<>>)
    ELSE
    LET dmi_addr == FromBits(SubSeq(rv, DMI_ADDRESS_BIT_OFFSET + 1, DMI_ADDRESS_BIT_OFFSET + 6))
        dmi_value == SubSeq(rv, DMI_VALUE_BIT_OFFSET + 1, DMI_VALUE_BIT_OFFSET + 32)
        dmi_op == FromBits(SubSeq(rv, 1, 2))
        answer == PackDmi(out.addr, out.data, out.op)
    IN CASE dmi_op = DMI_OP_READ ->
              LET w1 == send_command(w, DmiOpRead(dmi_addr), out)
              IN IF ~out.ok THEN Returns(w1, "Usb", <<>>)
                 ELSE Returns([w1 EXCEPT !.last_dmi_read = <<out.addr, out.data, out.op>>],
                               "Ok", answer)
         [] dmi_op = DMI_OP_NOP ->
              IF nop_is_cached(dmi_addr, dmi_value)
              THEN IF w.last_dmi_read = <<>> THEN Returns(w, "Panic", <<>>)
                   ELSE Returns(w, "Ok", PackDmi(w.last_dmi_read[1], w.last_dmi_read[2],
                                                  w.last_dmi_read[3]))
              ELSE LET w1 == send_command(w, DmiOpNop, out)
                   IN IF ~out.ok THEN Returns(w1, "Usb", <<>>)
                      ELSE Returns(w1, "Ok", answer)
         [] dmi_op = DMI_OP_WRITE ->
              LET w1 == send_command(w, DmiOpWrite(dmi_addr, dmi_value), out)
              IN IF ~out.ok THEN Returns(w1, "Usb", <<>>)
                 ELSE Returns([w1 EXCEPT !.slept = dmi_addr = 16 /\ dmi_value = Word(1073741825)],
                               "Ok", answer)
         [] OTHER -> Returns(w, "Panic", <<>>)

\* A write_register call starts: the WchLink is alive, and what the previous
\* call left behind is forgotten.
Called(address, val, rv, len) ==
    [wlink EXCEPT !.calls = @ + 1,
                  !.call = [address |-> address, val |-> val, rv |-> rv, len |-> len],
                  !.sent = <<>>, !.ret = [kind |-> "none", bits |-> <<>>],
                  !.slept = FALSE]

\* The answer to a DMI READ that the device completed is remembered as the
\* most recent successful read.
NoteRead(w, out) ==
    IF \E i \in 1..Len(w.sent) : w.sent[i].command.cmd = "read" /\ w.sent[i].ok
    THEN [w EXCEPT !.good_read = <<out.addr, out.data, out.op>>, !.good_reads = @ + 1]
    ELSE w

CanCall == wlink.calls < MaxCalls /\ wlink.ret.kind # "Panic"

WchInit ==
    /\ wlink = NoWlink
    /\ jtag = NoJtag
    /\ clr = NoClr
    /\ wlink_open = NoWlinkOpen
    /\ fn_call = NoFnCall
    /\ wire = NoWire
    /\ protocol = "Swd"
    /\ swd_settings = SwdSettings(0, 0)
    /\ idle_cycles = 0
    /\ stack = <<>>
    /\ final_transfers = <<>>
    /\ result_indices = <<>>
    /\ successful_transfers = 0
    /\ chunk_start = 0
    /\ retry_idle_cycles = 0
    /\ attempt = 0
    /\ hist = NoHist

\* write_register(REG_DTMCS_ADDRESS, val, len)
WriteDtmcs ==
    /\ CanCall
    /\ \E val \in DtmcsValues, out1, out2 \in UsbOutcomes :
          wlink' = write_dtmcs(Called(REG_DTMCS_ADDRESS, val, <<>>, 32), val, 32, out1, out2)
    /\ UNCHANGED <<engine, wire, others>>

\* write_register(REG_DMI_ADDRESS, register_value, len)
WriteDmi ==
    /\ CanCall
    /\ \E rv \in DmiRegisterValues, len \in {32, 41}, out \in UsbOutcomes :
          wlink' = NoteRead(write_dmi(Called(REG_DMI_ADDRESS, 0, rv, len), rv, len, out), out)
    /\ UNCHANGED <<engine, wire, others>>

\* write_register of any other address is unreachable!().
WriteUnknown ==
    /\ CanCall
    /\ wlink' = Returns(Called(REG_BYPASS_ADDRESS, 0, <<>>, 32), "Panic", <<>>)
    /\ UNCHANGED <<engine, wire, others>>

WchNext == WriteDtmcs \/ WriteDmi \/ WriteUnknown

WchSpec == WchInit /\ [][WchNext]_vars

\* ------------------------------------------- one perform_jtag_transfers call
\* A JTAG probe about to run perform_jtag_transfers on a batch of pending
\* transfers.
\* The most WAIT arms a chunk went through before the batch at hand.
MaxWaits == 8

\* The settings of a probe that retries with up to 128 more idle cycles.
RetrySettings ==
    [num_idle_cycles_between_writes |-> 2, max_retry_idle_cycles_after_wait |-> 128]

\* idle_cycles of perform_raw_transfers_retry after `waits` WAIT arms.
RECURSIVE RetryIdleCycles(_, _)
RetryIdleCycles(settings, waits) ==
    IF waits = 0 THEN Max(1, settings.num_idle_cycles_between_writes)
    ELSE Min(settings.max_retry_idle_cycles_after_wait,
             2 * RetryIdleCycles(settings, waits - 1))

\* idle_cycles_after of a write that perform_transfers planned and that was
\* in the retried chunk of `waits` WAIT arms.
RECURSIVE GrownIdle(_, _)
GrownIdle(settings, waits) ==
    IF waits = 0 THEN settings.num_idle_cycles_between_writes
    ELSE GrownIdle(settings, waits - 1) + RetryIdleCycles(settings, waits - 1)

\* Chunks of AP transfers as perform_raw_transfers_retry hands them over
\* after some WAIT arms: the writes carry the idle cycles added so far.
RetriedBatches ==
    {[i \in 1..Len(b) |->
        IF is_write(b[i])
        THEN [b[i] EXCEPT !.idle_cycles_after = GrownIdle(RetrySettings, waits)]
        ELSE b[i]] :
       b \in UNION {[1..n -> {DapTransferRead("AP"), DapTransferWrite("AP", 21)}] :
                      n \in 1..MaxBatch},
       waits \in 1..MaxWaits}

JtagInit ==
    /\ jtag \in {[NoJtag EXCEPT !.stage = "call", !.transfers = b] :
                   b \in Batches \cup RetriedBatches}
    /\ wlink = NoWlink
    /\ wire = NoWire
    /\ clr = NoClr
    /\ wlink_open = NoWlinkOpen
    /\ fn_call = NoFnCall
    /\ protocol = "Jtag"
    /\ swd_settings = SwdSettings(0, 0)
    /\ idle_cycles = 0
    /\ stack = <<>>
    /\ final_transfers = <<>>
    /\ result_indices = <<>>
    /\ successful_transfers = 0
    /\ chunk_start = 0
    /\ retry_idle_cycles = 0
    /\ attempt = 0
    /\ hist = NoHist

\* perform_jtag_transfers(probe, transfers): the queue is built and handed to
\* write_register_batch once, then the results are processed.
PerformJtagTransfers ==
    /\ jtag.stage = "call"
    /\ \E run \in JtagBatchRuns(JtagQueue(jtag.transfers)),
          sb \in StickyReported(jtag.transfers),
          check_sb \in {0, 32}, corr_ok \in BOOLEAN :
         LET queue == JtagQueue(jtag.transfers)
             out == perform_jtag_transfers(jtag.transfers, run, sb, check_sb, corr_ok,
                                           idle_cycles, 0)
         IN /\ jtag' = [stage |-> "done",
                        transfers |-> jtag.transfers,
                        commands |-> [i \in 1..Len(queue) |->
                                        jtag_write([queue[i] EXCEPT !.value = Word(@)])],
                        run |-> run,
                        check |-> ctrl_value(jtag.transfers, run, check_sb, 0),
                        out |-> out,
                        batch_calls |-> jtag.batch_calls + 1,
                        set_idle |-> batch_idle_cycles(jtag.transfers)]
            /\ idle_cycles' = out.idle
    /\ UNCHANGED <<protocol, swd_settings, stack, locals, hist, wire, wlink, clr,
                   wlink_open, fn_call>>

JtagNext == PerformJtagTransfers

JtagSpec == JtagInit /\ [][JtagNext]_vars

\* ------------------------------------------ clear_overrun_and_sticky_err
\* Calls of clear_overrun_and_sticky_err made one after the other.
MaxClears == 2

StickyFlags == {"STICKYERR", "STICKYORUN"}

\* The target's sticky flags after it took a write of `value` to ABORT:
\* STKERRCLR clears STICKYERR, ORUNERRCLR clears STICKYORUN.
AfterAbortWrite(sticky, value) ==
    sticky \ ((IF stkerrclr(value) THEN {"STICKYERR"} ELSE {})
              \cup (IF orunerrclr(value) THEN {"STICKYORUN"} ELSE {}))

ClearInit ==
    /\ clr \in {[NoClr EXCEPT !.sticky = f] : f \in SUBSET StickyFlags}
    /\ protocol \in {"Swd", "Jtag"}
    /\ swd_settings \in SettingsChoices
    /\ idle_cycles = 0
    /\ wlink = NoWlink
    /\ wire = NoWire
    /\ jtag = NoJtag
    /\ wlink_open = NoWlinkOpen
    /\ fn_call = NoFnCall
    /\ stack = <<>>
    /\ final_transfers = <<>>
    /\ result_indices = <<>>
    /\ successful_transfers = 0
    /\ chunk_start = 0
    /\ retry_idle_cycles = 0
    /\ attempt = 0
    /\ hist = NoHist

\* clear_overrun_and_sticky_err(probe): one write_dp_register of the Abort
\* value.  The target takes the write when it acknowledges it; when the
\* transport failed (`reached`) it may or may not have taken it.
ClearOverrunAndStickyErr ==
    /\ Len(clr.calls) < MaxClears
    /\ \E out \in write_dp_register(ClearAbortValue), reached \in BOOLEAN :
         LET res == WriteDpResult(out)
             on_wire == WireValue(protocol, DapTransferWrite("DP_ABORT", ClearAbortValue))
             taken == res = Ok \/ (res = "Probe" /\ reached)
             sticky == IF taken THEN AfterAbortWrite(clr.sticky, on_wire) ELSE clr.sticky
         IN /\ idle_cycles' = out.idle
            /\ clr' = [sticky |-> sticky,
                       calls |-> Append(clr.calls,
                          [writes |-> [i \in 1..Len(out.transfers) |->
                                         [address |-> out.transfers[i].address,
                                          direction |-> out.transfers[i].direction,
                                          idle_cycles_after |->
                                              out.transfers[i].idle_cycles_after]],
                           sent |-> out.ncmd,
                           value |-> ClearAbortValue,
                           on_wire |-> on_wire,
                           result |-> res,
                           settings |-> <<protocol, swd_settings, out.idle>>,
                           before |-> clr.sticky,
                           sticky |-> sticky])]
    /\ UNCHANGED <<protocol, swd_settings, stack, locals, hist, wire, wlink, jtag,
                   wlink_open, fn_call>>

ClearNext == ClearOverrunAndStickyErr

ClearSpec == ClearInit /\ [][ClearNext]_vars

\* ------------------------------------------------- WchLinkFactory::open
\* Firmware versions the probe reports, up to MaxMajor.MaxMinor.
MaxMajor == 3
MaxMinor == 11

\* WchLinkVariant
WchLinkVariants == {"Ch549", "ECh32v305", "SCh32v203", "WCh32v208"}

\* The outcomes of send_command(GetProbeInfo): the probe's reply, or an
\* error of the USB transfer.
ProbeInfos ==
    [ok : {TRUE}, major_version : 0..MaxMajor, minor_version : 0..MaxMinor,
     variant : WchLinkVariants]
    \cup {[ok |-> FALSE, major_version |-> 0, minor_version |-> 0, variant |-> "Ch549"]}

\* The version check of get_probe_info and init.
version_unsupported(v_major, v_minor) == v_major # 2 /\ v_minor < 7

\* WchLink::get_probe_info
get_probe_info(w, reply) ==
    IF ~reply.ok THEN [w EXCEPT !.result = "UsbError"]
    ELSE LET stored == [w EXCEPT !.v_major = reply.major_version,
                                 !.v_minor = reply.minor_version]
         IN IF version_unsupported(stored.v_major, stored.v_minor)
            THEN [stored EXCEPT !.result = "UnsupportedFirmwareVersion"]
            ELSE [stored EXCEPT !.variant = reply.variant, !.result = "Ok"]

\* WchLink::init
init(w, reply) ==
    LET info == get_probe_info(w, reply)
    IN IF info.result # "Ok" THEN info
       ELSE IF version_unsupported(info.v_major, info.v_minor)
       THEN [info EXCEPT !.result = "UnsupportedFirmwareVersion"]
       ELSE [info EXCEPT !.name = <<info.variant, "v", info.v_major, ".", info.v_minor>>]

OpenInit ==
    /\ wlink_open = NoWlinkOpen
    /\ fn_call = NoFnCall
    /\ wlink = NoWlink
    /\ wire = NoWire
    /\ jtag = NoJtag
    /\ clr = NoClr
    /\ protocol = "Jtag"
    /\ swd_settings = SwdSettings(0, 0)
    /\ idle_cycles = 0
    /\ stack = <<>>
    /\ final_transfers = <<>>
    /\ result_indices = <<>>
    /\ successful_transfers = 0
    /\ chunk_start = 0
    /\ retry_idle_cycles = 0
    /\ attempt = 0
    /\ hist = NoHist

\* WchLinkFactory::open: the WchLink is built and init runs on it.
Open ==
    /\ wlink_open.result = "none"
    /\ \E reply \in ProbeInfos : wlink_open' = init(wlink_open, reply)
    /\ UNCHANGED <<engine, wire, wlink, jtag, clr, fn_call>>

OpenNext == Open

OpenSpec == OpenInit /\ [][OpenNext]_vars

\* ------------------------------------------------------------------ claims
num_retries == swd_settings.num_retries_after_wait

\* perform_transfers has just returned Ok to the frame on top of the stack.
PerformTransfersReturnedOk ==
    /\ Running
    /\ \/ Top.pc = "match"
       \/ Top.op = "perform_transfers" /\ Top.pc = "ret" /\ Top.result.tag = "Ok"

\* The status of the first transfer that is not Ok (Ok when there is none).
FirstNonOk(transfers) ==
    LET k == LeadingOk(transfers)
    IN IF k < Len(transfers) THEN transfers[k + 1].status ELSE Ok

\* C1: whenever perform_transfers returns Ok, no caller transfer is left with
\* status Pending, whatever the batch, the protocol, the acknowledgements and
\* num_retries_after_wait (0 included).
C1_OkLeavesNoPending ==
    PerformTransfersReturnedOk
        => \A i \in 1..Len(Top.transfers) : Top.transfers[i].status # Pending

\* A WaitResponse reaches the caller: as the Err of the call, or as the status
\* of a caller transfer after perform_transfers returned Ok.
WaitReturnedAsErr ==
    Running /\ Top.pc = "ret" /\ Top.result = ResultErr(WaitResponse)
WaitInCallerStatus ==
    PerformTransfersReturnedOk /\ HasStatus(Top.transfers, WaitResponse)
AllAttemptsWaited == hist.exec = num_retries /\ hist.waits = num_retries

\* C2 as stated: a WaitResponse reaches the caller, as an Err or as a caller
\* transfer status, only when all num_retries_after_wait executor attempts on
\* the batch ended in WAIT.
C2_WaitOnlyAfterAllRetries ==
    (WaitReturnedAsErr \/ WaitInCallerStatus) => AllAttemptsWaited

\* C2 amended: a WaitResponse reaches the caller as an Err, or as the first
\* caller transfer status that is not Ok, only when all attempts ended in
\* WAIT or when the engine's last ABORT write was itself answered WAIT.
C2_WaitAfterAllRetriesOrAbortWait ==
    (WaitReturnedAsErr
       \/ (PerformTransfersReturnedOk /\ FirstNonOk(Top.transfers) = WaitResponse))
        => \/ AllAttemptsWaited
           \/ /\ hist.lastOp \in {"stkclr", "dapabort", "clear"}
              /\ hist.abortAck = WaitResponse

\* A run with at least two attempts, all ended in WAIT, whose WaitResponse is
\* the status the caller sees.
C2_Witness ==
    /\ PerformTransfersReturnedOk
    /\ FirstNonOk(Top.transfers) = WaitResponse
    /\ num_retries >= 2
    /\ AllAttemptsWaited

\* C3: with num_retries_after_wait >= 1, every attempt ended in WAIT and every
\* ABORT write acknowledged OK, perform_raw_transfers_retry has written ABORT
\* with DAPABORT exactly once, as its last probe operation, and returned Ok
\* with the first unfinished transfer Failed(WaitResponse), the earlier ones Ok.
C3_TimeoutWritesDapAbort ==
    (/\ Running
     /\ Top.pc \notin {"retry", "abort"}
     /\ num_retries >= 1
     /\ AllAttemptsWaited
     /\ hist.abortAck = Ok)
        => /\ hist.dapabort = 1
           /\ hist.lastOp = "dapabort"
           /\ hist.retryResult = "Ok"
           /\ successful_transfers < Len(final_transfers)
           /\ final_transfers[successful_transfers + 1].status = WaitResponse
           /\ \A i \in 1..successful_transfers : final_transfers[i].status = Ok

\* The timeout after two attempts, the second of which got further than the
\* first.
C3_Witness ==
    /\ Running
    /\ Top.pc = "match"
    /\ num_retries = 2
    /\ AllAttemptsWaited
    /\ hist.abortAck = Ok
    /\ hist.lastOp = "dapabort"
    /\ successful_transfers >= 1

\* Rank of the frame on top of the stack: it falls with every step the call
\* takes.
PcRank(frame) ==
    CASE frame.pc = "retry" -> 2 * (num_retries + 1 - attempt) + 6
      [] frame.pc = "abort" -> 2 * (num_retries + 1 - attempt) + 5
      [] frame.pc = "match" -> 4
      [] frame.pc = "diag" -> 3
      [] frame.pc = "clear" -> 2
      [] OTHER -> 1

\* Rank of the whole stack: a frame that waits for a nested call weighs more
\* than anything the nested call can do.
Variant ==
    IF ~Running THEN 0
    ELSE (2 * num_retries + 10) * PcRank(stack[1])
         + (IF Len(stack) >= 2 THEN PcRank(Top) ELSE 0)

\* The steps of a call other than an iteration of the retry loop.
StepOutsideLoop ==
    \/ RetryAbort
    \/ TimeoutAbort
    \/ ReadRegisterResult
    \/ WriteRegisterResult
    \/ BlockResult
    \/ FaultClear
    \/ DiagReturn
    \/ Return

\* A call in progress can take its next step: the retry loop has an
\* iteration to run (the executor always has an outcome), or another step is
\* enabled.
CanStep ==
    Running => \/ Top.pc = "retry" /\ LoopContinues(attempt, num_retries)
               \/ ENABLED StepOutsideLoop

\* C4: every perform_transfers call terminates (each step of a call in
\* progress is possible and lowers the rank), having run the executor on the
\* batch at most num_retries_after_wait times and written at most
\* num_retries_after_wait sticky-clear ABORTs and at most one DAPABORT.
C4_BoundedRetries ==
    /\ [](/\ hist.exec <= num_retries
          /\ hist.stkclr <= num_retries
          /\ hist.dapabort <= 1
          /\ attempt <= num_retries
          /\ CanStep)
    /\ [][Running => Variant' < Variant]_vars

\* A call that used every attempt and every ABORT it may.
C4_Witness ==
    /\ Running
    /\ Top.pc \in {"match", "ret"}
    /\ num_retries = 2
    /\ hist.exec = 2
    /\ hist.stkclr = 2
    /\ hist.dapabort = 1

\* The frame on top is inside perform_transfers, or perform_transfers has just
\* returned Ok to it: final_transfers and result_indices are those of its
\* batch.
InPerformTransfers ==
    (Running /\ Top.pc \in {"retry", "abort"}) \/ PerformTransfersReturnedOk

\* C5: the map from caller index to index in the extended batch T' is
\* strictly increasing, index + response_in_next is a valid index of T', each
\* caller transfer's final status is T'[index].status unless that is Ok and
\* response_in_next holds (then T'[index + 1].status), and each caller read's
\* value is T'[index + response_in_next].value.
C5_IndexMap ==
    /\ InPerformTransfers =>
         /\ Len(result_indices) = Len(Top.transfers)
         /\ \A i \in 1..Len(result_indices) :
              /\ result_indices[i].index >= 1
              /\ result_indices[i].index
                   + (IF result_indices[i].response_in_next THEN 1 ELSE 0)
                     <= Len(final_transfers)
              /\ \A j \in 1..(i - 1) : result_indices[j].index < result_indices[i].index
    /\ PerformTransfersReturnedOk =>
         \A i \in 1..Len(Top.transfers) :
            LET index == result_indices[i].index
                next == result_indices[i].response_in_next
                caller == Top.transfers[i]
            IN /\ caller.status =
                    IF final_transfers[index].status = Ok /\ next
                    THEN final_transfers[index + 1].status
                    ELSE final_transfers[index].status
               /\ caller.direction = Read =>
                    caller.value = final_transfers[IF next THEN index + 1 ELSE index].value

\* A batch of two that grew by an extra transfer, returned with a read whose
\* value came from the transfer after its own.
C5_Witness ==
    /\ PerformTransfersReturnedOk
    /\ Len(Top.transfers) = 2
    /\ Len(final_transfers) > 2
    /\ \E i \in 1..2 :
         /\ result_indices[i].response_in_next
         /\ Top.transfers[i].direction = Read
         /\ Top.transfers[i].status = Ok
         /\ Top.transfers[i].value # 0

\* The data phase a reference target answers caller transfer i in: a DP
\* read's own, an AP read's that of the next AP read or RDBUFF read sent.
AnsweredInSlot(i, slot) ==
    LET index == result_indices[i].index
    IN IF is_ap_read(Top.transfers[i])
       THEN /\ slot \in (index + 1)..Len(final_transfers)
            /\ is_ap_read(final_transfers[slot]) \/ is_rdbuff(final_transfers[slot])
            /\ \A j \in (index + 1)..(slot - 1) :
                 ~is_ap_read(final_transfers[j]) /\ ~is_rdbuff(final_transfers[j])
       ELSE slot = index

\* C6: on SWD, when every acknowledgement is OK with correct parity, every
\* caller transfer of a non-empty batch ends with status Ok and every caller
\* read has the value of the data phase a reference target answers it in.
C6_SwdAllOkValues ==
    (PerformTransfersReturnedOk /\ protocol = "Swd" /\ hist.allOk)
        => \A i \in 1..Len(Top.transfers) :
              /\ Top.transfers[i].status = Ok
              /\ Top.transfers[i].direction = Read
                   => AnsweredInSlot(i, SlotOf(Top.transfers[i].value))

\* C7: the JTAG executors leave the probe's idle_cycles setting as they found
\* it, on every exit path (success, DAP error, transport error).
C7_IdleCyclesRestored == [][protocol = "Jtag" => idle_cycles' = idle_cycles]_vars

\* raw_read_register or raw_write_register is about to return FaultResponse.
SingleOps == {"raw_read_register", "raw_write_register"}
ReturnsFault ==
    /\ Running
    /\ Top.pc = "ret"
    /\ Top.op \in SingleOps
    /\ Top.result = ResultErr(FaultResponse)

\* C8 as stated: whenever raw_read_register or raw_write_register returns
\* FaultResponse, an ABORT write clearing the sticky flags was done (and
\* acknowledged) after the faulting transfer and before the return.
C8_FaultClearedByAbort == ReturnsFault => hist.clearAt > hist.faultAt

\* C8 amended: whenever raw_read_register or raw_write_register returns
\* FaultResponse, a sticky-clear ABORT write was acknowledged after the
\* faulting transfer, or the diagnostic CTRL/STAT read showed neither
\* sticky_orun nor sticky_err (nothing is written then), or the FaultResponse
\* is the acknowledgement of an ABORT write of the engine itself.
C8_FaultClearedOrNothingSeen ==
    ReturnsFault
        => \/ hist.clearAt > hist.faultAt
           \/ hist.diagClean
           \/ /\ hist.lastOp \in {"stkclr", "dapabort", "clear"}
              /\ hist.abortAck = FaultResponse

\* raw_write_register returns FaultResponse after the diagnostic read showed
\* a sticky flag and the ABORT write cleared it.
C8_Witness ==
    /\ ReturnsFault
    /\ Len(stack) = 1
    /\ Top.op = "raw_write_register"
    /\ hist.diag = 1
    /\ ~hist.diagClean
    /\ hist.clearAt > hist.faultAt

\* A call of raw_read_register or raw_write_register in progress can take
\* its next step.
SingleOpCanStep == (Running /\ stack[1].op \in SingleOps) => ENABLED Step

\* C9: a FAULT on raw_read_register(CTRL/STAT) leads to the sticky-clear
\* ABORT write and to no diagnostic read; one raw_read_register or
\* raw_write_register call does at most one nested diagnostic read, never
\* nests deeper than one level, and terminates whatever the target answers
\* (each step is possible and lowers the rank).
C9_FaultHandlingBounded ==
    /\ [](/\ Len(stack) <= 2
          /\ hist.diag <= 1
          /\ \A i \in 1..Len(stack) :
               LET frame == stack[i]
                   ctrl_read == frame.op = "raw_read_register" /\ frame.address = CTRL_PORT
               IN /\ frame.pc = "diag" => ~ctrl_read
                  /\ i < Len(stack) => frame.pc = "diag"
                  /\ (ctrl_read /\ frame.pc = "ret"
                      /\ frame.transfers[1].status = FaultResponse)
                        => hist.lastOp = "clear"
          /\ SingleOpCanStep)
    /\ [][(Running /\ stack[1].op \in SingleOps) => Variant' < Variant]_vars

\* The nested diagnostic read of a faulted write is itself answered FAULT:
\* it has written the sticky-clear ABORT and is about to return.
C9_Witness ==
    /\ Len(stack) = 2
    /\ stack[1].op = "raw_write_register"
    /\ Top.pc = "ret"
    /\ Top.transfers[1].status = FaultResponse
    /\ hist.lastOp = "clear"
    /\ hist.diag = 1

\* C10: when the first status that is not Ok of an executed batch is
\* NoAcknowledge, IncorrectParity or Protocol, the call does no further probe
\* I/O (the executor's is the last) and the raw_* call returns that error.
C10_FatalReturnedAtOnce ==
    (Running /\ hist.fatal # "none")
        => /\ hist.lastOp = "exec"
           /\ Top.pc \in {"match", "ret"}
           /\ (Top.pc = "ret" /\ Top.op # "perform_transfers")
                => Top.result = ResultErr(hist.fatal)

\* raw_read_block returns IncorrectParity met after a first word was read.
C10_Witness ==
    /\ Running
    /\ Top.op = "raw_read_block"
    /\ Top.pc = "ret"
    /\ hist.fatal = IncorrectParity
    /\ Top.result = ResultErr(IncorrectParity)
    /\ successful_transfers >= 1

\* Caller transfer i is an AP read / an AP write, by its fields.
IsApRead(i) == Top.transfers[i].address = "AP" /\ Top.transfers[i].direction = Read
IsApWrite(i) == Top.transfers[i].address = "AP" /\ Top.transfers[i].direction = Write

\* The three cases in which an extra RDBUFF read follows caller transfer i.
ExtraReadExpected(i) ==
    LET n == Len(Top.transfers)
        t == Top.transfers[i]
        next == Top.transfers[i + 1]
    IN \/ i < n /\ IsApRead(i) /\ ~IsApRead(i + 1)
       \/ /\ i < n
          /\ IsApWrite(i)
          /\ \/ next.address = "DP_ABORT" /\ next.direction = Write
             \/ next.address = "DP_DPIDR" /\ next.direction = Read
             \/ next.address = "DP_CTRL" /\ next.direction = Read
       \/ /\ i = n
          /\ \/ IsApRead(i)
             \/ t.direction = Write /\ t.address # "DP_ABORT"

\* The number of transfers of the extended batch between caller transfer i
\* and the next caller transfer (or the end).
ExtraAfter(i) ==
    (IF i < Len(Top.transfers) THEN result_indices[i + 1].index
                               ELSE Len(final_transfers) + 1)
    - result_indices[i].index - 1

\* C11: on SWD, and never on JTAG, an extra RDBUFF read directly follows
\* caller transfer T[i] exactly when (a) T[i] is an AP read and T[i+1] exists
\* and is not an AP read, (b) T[i] is an AP write and T[i+1] is an ABORT
\* write, a DPIDR read or a CTRL/STAT read, or (c) T[i] is the last transfer
\* and an AP read or a write other than ABORT; nothing else is added,
\* removed or reordered.
C11_ExtraReads ==
    InPerformTransfers =>
        /\ Len(result_indices) = Len(Top.transfers)
        /\ result_indices[1].index = 1
        /\ \A i \in 1..Len(Top.transfers) :
             LET index == result_indices[i].index
             IN /\ index <= Len(final_transfers)
                /\ final_transfers[index].address = Top.transfers[i].address
                /\ final_transfers[index].direction = Top.transfers[i].direction
                /\ (hist.exec = 0 /\ Top.transfers[i].direction = Write)
                      => final_transfers[index].value = Top.transfers[i].value
                /\ ExtraAfter(i) \in {0, 1}
                /\ ExtraAfter(i) = 1 <=> (protocol = "Swd" /\ ExtraReadExpected(i))
                /\ ExtraAfter(i) = 1 =>
                      /\ final_transfers[index + 1].address = "DP_RDBUFF"
                      /\ final_transfers[index + 1].direction = Read

\* On SWD an AP write followed by a CTRL/STAT read: three transfers are
\* planned, the second an RDBUFF read.
C11_Witness ==
    /\ InPerformTransfers
    /\ protocol = "Swd"
    /\ Len(Top.transfers) = 2
    /\ IsApWrite(1)
    /\ Top.transfers[2].address = "DP_CTRL" /\ Top.transfers[2].direction = Read
    /\ Len(final_transfers) = 3
    /\ final_transfers[2].address = "DP_RDBUFF"

\* The caller batch on SWD is [Read(AP), Read(DP)].
ApReadThenDpRead ==
    /\ InPerformTransfers
    /\ protocol = "Swd"
    /\ Len(Top.transfers) = 2
    /\ IsApRead(1)
    /\ Top.transfers[2].address \in DpAddresses /\ Top.transfers[2].direction = Read

\* C12 as stated: for the SWD batch [Read(AP), Read(DP)] no extra RDBUFF
\* read is planned, the executed batch is the two caller transfers.
C12_ApThenDpNoExtra == ApReadThenDpRead => Len(final_transfers) = 2

\* C12 amended: for the SWD batch [Read(AP), Read(DP)] exactly one extra
\* RDBUFF read is planned, directly after the AP read; the executed batch is
\* [Read(AP), Read(RDBUFF), Read(DP)] and the AP read's value is the one the
\* RDBUFF read returns.
C12_ApThenDpOneExtra ==
    ApReadThenDpRead =>
        /\ Len(final_transfers) = 3
        /\ final_transfers[1].address = "AP" /\ final_transfers[1].direction = Read
        /\ final_transfers[2].address = "DP_RDBUFF" /\ final_transfers[2].direction = Read
        /\ final_transfers[3].address = Top.transfers[2].address
        /\ final_transfers[3].direction = Read
        /\ (PerformTransfersReturnedOk /\ Top.transfers[1].status = Ok)
              => Top.transfers[1].value = final_transfers[2].value

\* perform_transfers returned Ok for [Read(AP), Read(DPIDR)] with both reads
\* Ok and the AP read's value taken from the second data phase.
C12_Witness ==
    /\ ApReadThenDpRead
    /\ PerformTransfersReturnedOk
    /\ Top.transfers[2].address = "DP_DPIDR"
    /\ Top.transfers[1].status = Ok
    /\ Top.transfers[2].status = Ok
    /\ SlotOf(Top.transfers[1].value) = 2
    /\ SlotOf(Top.transfers[2].value) = 3

\* The step is an executor attempt that follows an earlier attempt of the
\* same perform_transfers call.
NextAttempt == hist.exec >= 1 /\ hist'.exec = hist.exec + 1

\* The step is an executor attempt whose first status that is not Ok is
\* WaitResponse.
AttemptEndsInWait == hist'.waits = hist.waits + 1

\* Since the last attempt exactly one ABORT write was issued, of a value with
\* ORUNERRCLR and STKERRCLR set and DAPABORT clear.
OneClearAbortSince ==
    /\ hist.abortsSince = 1
    /\ orunerrclr(hist.abortValue)
    /\ stkerrclr(hist.abortValue)
    /\ ~dapabort(hist.abortValue)

\* The value the target receives for an ABORT write of each value of the five
\* ABORT bits, on each protocol.
AbortWireOf ==
    [p \in {"Swd", "Jtag"}, v \in 0..31 |-> WireValue(p, DapTransferWrite("DP_ABORT", v))]

\* The value the target received for the last ABORT write.
AbortWire == AbortWireOf[protocol, hist.abortValue]

\* C13 as stated: after an attempt that ends in WAIT and before the next
\* attempt exactly one ABORT write is issued, and the value sent on the wire
\* has ORUNERRCLR and STKERRCLR set and DAPABORT clear, on SWD and on JTAG.
C13_ClearAbortOnWire ==
    [][NextAttempt =>
          /\ OneClearAbortSince
          /\ orunerrclr(AbortWire)
          /\ stkerrclr(AbortWire)
          /\ ~dapabort(AbortWire)]_vars

\* C13 amended: after an attempt that ends in WAIT the ABORT write is the
\* next operation, and before the next attempt exactly one ABORT write is
\* issued, of a value with ORUNERRCLR and STKERRCLR set and DAPABORT clear;
\* on SWD that value is what is sent, on JTAG the fixed payload 0x8 is sent
\* (DAPABORT set, ORUNERRCLR and STKERRCLR clear).
C13_ClearAbortBetweenAttempts ==
    /\ [][AttemptEndsInWait =>
             /\ stack'[Len(stack')].pc = "abort"
             /\ hist'.abortsSince = 0]_vars
    /\ [][NextAttempt =>
             /\ OneClearAbortSince
             /\ protocol = "Swd" => AbortWire = hist.abortValue
             /\ protocol = "Jtag" =>
                   /\ AbortWire = JTAG_ABORT_VALUE \div 8
                   /\ dapabort(AbortWire)
                   /\ ~orunerrclr(AbortWire)
                   /\ ~stkerrclr(AbortWire)]_vars

\* On JTAG a second attempt has run after the ABORT write that followed a
\* WAIT.
C13_Witness ==
    /\ protocol = "Jtag"
    /\ hist.exec = 2
    /\ hist.waits >= 1
    /\ hist.stkclr = 1
    /\ hist.abortsSince = 0
    /\ AbortWire = 1
    /\ hist.abortValue = 20

\* The number of 1 bits of a 32-bit value, modulo 2.
PopcountMod2(value) == Cardinality({i \in 1..32 : value[i]}) % 2

\* Address bits 2 and 3 of a register, by the ADIv5 register map.
AddressBit2(address) == address \in {"DP_CTRL", "DP_RDBUFF", "AP_4", "AP_C"}
AddressBit3(address) == address \in {"DP_SELECT", "DP_RDBUFF", "AP_8", "AP_C"}

Driven(item, bit) == item.kind = "Output" /\ item.bit = bit
Sampled(item) == item.kind = "Input"

\* C14: io_sequence is the fixed template: 8 driven request bits (start 1,
\* APnDP, RnW, A2, A3, parity of those four, stop 0, park 1), 1 sampled
\* turnaround, 3 sampled ACK bits, then for a write 1 sampled turnaround, 32
\* driven data bits least significant first and 1 driven parity bit, for a
\* read 34 sampled bits, then idle_cycles_after driven zeros; its length is
\* 46 + idle_cycles_after and equals swd_response_length().
C14_IoSequenceTemplate ==
    wire.stage = "swd" =>
        LET t == wire.t
            seq == wire.seq
            apndp == t.address \in ApAddresses
            rnw == t.direction = Read
            ones == Cardinality({i \in 2..5 : seq[i].bit})
        IN /\ Len(seq) = 46 + t.idle_cycles_after
           /\ Len(seq) = swd_response_length(t)
           /\ Driven(seq[1], TRUE)
           /\ Driven(seq[2], apndp)
           /\ Driven(seq[3], rnw)
           /\ Driven(seq[4], AddressBit2(t.address))
           /\ Driven(seq[5], AddressBit3(t.address))
           /\ Driven(seq[6], ones % 2 = 1)
           /\ Driven(seq[7], FALSE)
           /\ Driven(seq[8], TRUE)
           /\ \A i \in 9..12 : Sampled(seq[i])
           /\ t.direction = Write =>
                 /\ Sampled(seq[13])
                 /\ \A i \in 1..32 : Driven(seq[13 + i], t.value[i])
                 /\ seq[46].kind = "Output"
           /\ t.direction = Read => \A i \in 13..46 : Sampled(seq[i])
           /\ \A i \in 47..Len(seq) : Driven(seq[i], FALSE)

\* A write of all ones to an AP register with two idle cycles was encoded.
C14_Witness ==
    /\ wire.stage = "swd"
    /\ wire.t.direction = Write
    /\ wire.t.address = "AP_C"
    /\ wire.t.idle_cycles_after = 2
    /\ wire.t.value = [i \in 1..32 |-> TRUE]
    /\ Len(wire.seq) = 48

\* The response `resp` with bit i (counted from the first ACK bit) flipped.
Flip(resp, i) == [resp EXCEPT ![i] = ~@]

AckOk == <<TRUE, FALSE, FALSE>>
DataOf(resp) == SubSeq(resp, 4, 35)
ParityCorrect(resp) == resp[36] = (PopcountMod2(DataOf(resp)) = 1)

\* C15: a read response with ACK OK, data bits v and parity bit
\* popcount(v) mod 2 parses to Ok(v); with any single data bit or the parity
\* bit flipped it parses to IncorrectParity; the parity bit driven for
\* Write(v) is popcount(v) mod 2.
C15_Parity ==
    /\ (wire.stage = "parsed" /\ wire.t.direction = Read
          /\ SubSeq(wire.resp, 1, 3) = AckOk)
         => IF ParityCorrect(wire.resp)
            THEN /\ wire.parsed = [status |-> Ok, value |-> DataOf(wire.resp)]
                 /\ \A i \in 4..36 :
                      parse_swd_response_bits(Flip(wire.resp, i), Read).status
                          = IncorrectParity
            ELSE wire.parsed.status = IncorrectParity
    /\ (wire.stage = "swd" /\ wire.t.direction = Write)
         => Driven(wire.seq[46], PopcountMod2(wire.t.value) = 1)

\* A read response carrying all ones but bit 0, with its parity bit 1, was
\* parsed to that value.
C15_Witness ==
    /\ wire.stage = "parsed"
    /\ wire.t.direction = Read
    /\ SubSeq(wire.resp, 1, 3) = AckOk
    /\ DataOf(wire.resp) = [i \in 1..32 |-> i # 1]
    /\ wire.resp[36]
    /\ wire.parsed.status = Ok
    /\ wire.parsed.value = [i \in 1..32 |-> i # 1]

\* What the ACK bits other than (1,0,0) are parsed to.
AckError(ack) ==
    CASE ack = <<TRUE, TRUE, TRUE>> -> NoAcknowledge
      [] ack = <<FALSE, TRUE, FALSE>> -> WaitResponse
      [] ack = <<FALSE, FALSE, TRUE>> -> FaultResponse
      [] OTHER -> ProtocolSwd

\* C16 as stated: (1,1,1) is parsed to NoAcknowledge, (0,1,0) to
\* WaitResponse, (0,0,1) to FaultResponse, (1,0,0) to success (value 0 for a
\* write) and the four other patterns to Protocol(Swd), for both directions
\* and whatever the data bits.
C16_AckDecodeAnyData ==
    wire.stage = "parsed" =>
        LET ack == SubSeq(wire.resp, 1, 3)
        IN IF ack = AckOk
           THEN /\ wire.parsed.status = Ok
                /\ wire.t.direction = Write => wire.parsed.value = Word(0)
           ELSE wire.parsed = [status |-> AckError(ack), value |-> <<>>]

\* C16 amended: as stated, except that (1,0,0) on a read is success only
\* when the parity bit matches the data bits, and IncorrectParity otherwise.
C16_AckDecode ==
    wire.stage = "parsed" =>
        LET ack == SubSeq(wire.resp, 1, 3)
        IN IF ack # AckOk
           THEN wire.parsed = [status |-> AckError(ack), value |-> <<>>]
           ELSE IF wire.t.direction = Write
           THEN wire.parsed = [status |-> Ok, value |-> Word(0)]
           ELSE IF ParityCorrect(wire.resp)
           THEN wire.parsed = [status |-> Ok, value |-> DataOf(wire.resp)]
           ELSE wire.parsed = [status |-> IncorrectParity, value |-> <<>>]

\* The ACK bits (1,1,0) of a write were parsed to Protocol(Swd).
C16_Witness ==
    /\ wire.stage = "parsed"
    /\ wire.t.direction = Write
    /\ SubSeq(wire.resp, 1, 3) = <<TRUE, TRUE, FALSE>>
    /\ wire.parsed.status = ProtocolSwd

\* Decoding a 35-bit payload: value = payload >> 3, A[3:2] = bits 2:1,
\* RnW = bit 0.
DecodedValue(payload) == SubSeq(payload, 4, 35)
DecodedA2(payload) == payload[2]
DecodedA3(payload) == payload[3]
DecodedRnW(payload) == payload[1]

\* Decoding the payload recovers the transfer's value, address bits and
\* direction.
RoundTrips(t, payload) ==
    /\ DecodedValue(payload) = t.value
    /\ DecodedA2(payload) = AddressBit2(t.address)
    /\ DecodedA3(payload) = AddressBit3(t.address)
    /\ DecodedRnW(payload) = (t.direction = Read)

IsAbortWrite(t) == t.address = "DP_ABORT" /\ t.direction = Write

\* C17 as stated: for every transfer, decoding the payload of jtag_write and
\* of build_jtag_payload_and_address recovers value, A[3:2] and direction.
C17_JtagRoundTripAll ==
    wire.stage = "jtag" =>
        /\ RoundTrips(wire.t, wire.command.data)
        /\ RoundTrips(wire.t, wire.single.data)

\* C17 amended: for every transfer other than a write to DP ABORT, decoding
\* the payload recovers value, A[3:2] and direction; a write to DP ABORT is
\* sent as the fixed payload 0x8, which decodes to value 1, A[3:2] = 0 and
\* a write, whatever the transfer's value.
C17_JtagRoundTrip ==
    wire.stage = "jtag" =>
        IF IsAbortWrite(wire.t)
        THEN \A payload \in {wire.command.data, wire.single.data} :
                /\ DecodedValue(payload) = [i \in 1..32 |-> i = 1]
                /\ ~DecodedA2(payload) /\ ~DecodedA3(payload) /\ ~DecodedRnW(payload)
        ELSE /\ RoundTrips(wire.t, wire.command.data)
             /\ RoundTrips(wire.t, wire.single.data)

\* A read of DP SELECT (A[3:2] = 10) with only bit 31 of the value set was
\* encoded.
C17_Witness ==
    /\ wire.stage = "jtag"
    /\ wire.t.address = "DP_SELECT"
    /\ wire.t.direction = Read
    /\ wire.t.value = [i \in 1..32 |-> i = 32]
    /\ wire.command.data[35]
    /\ wire.command.data[3] /\ ~wire.command.data[2] /\ wire.command.data[1]

\* C18: every DR shift is 35 bits long; a write to DP ABORT is sent with IR
\* 0x8 and payload 0x8 whatever its value, every other DP transfer with IR
\* 0xA and every AP transfer with IR 0xB.
C18_JtagIrAndLength ==
    wire.stage = "jtag" =>
        \A command \in {wire.command, wire.single} :
            /\ command.len = 35
            /\ Len(DrBits(command)) = 35
            /\ IF IsAbortWrite(wire.t)
               THEN /\ command.address = 8
                    /\ command.data = [i \in 1..64 |-> i = 4]
               ELSE IF wire.t.address \in ApAddresses
               THEN command.address = 11
               ELSE command.address = 10

\* A write of all ones to DP ABORT was encoded with IR 0x8.
C18_Witness ==
    /\ wire.stage = "jtag"
    /\ IsAbortWrite(wire.t)
    /\ wire.t.value = [i \in 1..32 |-> TRUE]
    /\ wire.command.address = 8
    /\ ~wire.command.data[5]

\* The last write_register call wrote the DMI register with 41 bits.
DmiCall == wlink.calls >= 1 /\ wlink.call.address = 17 /\ wlink.call.len = 41

\* The op, data and 6-bit address fields of the DMI register value written.
CallOp == IF wlink.call.rv[2] THEN (IF wlink.call.rv[1] THEN 3 ELSE 2)
          ELSE (IF wlink.call.rv[1] THEN 1 ELSE 0)
CallDataZero == \A i \in 3..34 : ~wlink.call.rv[i]
CallAddrZero == \A i \in 35..40 : ~wlink.call.rv[i]

\* The last call was a DMI NOP with addr = 0 and data = 0.
NopZeroCall == DmiCall /\ CallOp = 0 /\ CallDataZero /\ CallAddrZero

\* The (addr, data, op) tuple packed in the bits write_register returned.
ReturnedTuple ==
    <<FromBits(SubSeq(wlink.ret.bits, 35, 42)), SubSeq(wlink.ret.bits, 3, 34),
      FromBits(SubSeq(wlink.ret.bits, 1, 2))>>

\* The step is a write_register call in which no DMI READ succeeded.
CallWithoutGoodRead ==
    /\ wlink'.calls = wlink.calls + 1
    /\ wlink'.good_reads = wlink.good_reads

\* C19: once a DMI READ has succeeded, a DMI NOP with addr = 0 and data = 0
\* issues no USB command and returns the tuple of the most recent successful
\* DMI READ; a call in which no DMI READ succeeds (a WRITE, a NOP, a failed
\* READ) leaves the cached tuple unchanged.
C19_NopReturnsLastRead ==
    /\ []((NopZeroCall /\ wlink.good_reads >= 1) =>
             /\ wlink.sent = <<>>
             /\ wlink.ret.kind = "Ok"
             /\ ReturnedTuple = wlink.good_read)
    /\ [][CallWithoutGoodRead => wlink'.last_dmi_read = wlink.last_dmi_read]_vars

\* A NOP with addr = 0 and data = 0 was the third call, after two successful
\* READs, and returned (16, 5, 3) without a USB command.
C19_Witness ==
    /\ NopZeroCall
    /\ wlink.calls = 3
    /\ wlink.good_reads = 2
    /\ wlink.sent = <<>>
    /\ wlink.ret.kind = "Ok"
    /\ ReturnedTuple = <<16, Word(5), 3>>

\* The last write_register call wrote DTMCS and has returned.
DtmcsCall == wlink.calls >= 1 /\ wlink.call.address = 16

DmiResetSet == (wlink.call.val \div 65536) % 2 = 1
DmiHardResetSet == (wlink.call.val \div 131072) % 2 = 1

\* The DMI commands the last call issued.
Commands == [i \in 1..Len(wlink.sent) |-> wlink.sent[i].command]
WriteOf(value) == [cmd |-> "write", addr |-> 16, data |-> Word(value)]

\* C20 as stated: a DTMCS write with DMIRESET set issues exactly the DMI
\* writes (0x10, 0) and (0x10, 1), in that order; every DTMCS write with
\* DMIHARDRESET set is rejected as unsupported and issues no DMI command; a
\* write with neither bit set issues no DMI command.
C20_DtmcsAsStated ==
    DtmcsCall =>
        /\ DmiResetSet => Commands = <<WriteOf(0), WriteOf(1)>>
        /\ DmiHardResetSet =>
              wlink.ret.kind = "UnsupportedOperation" /\ Commands = <<>>
        /\ (~DmiResetSet /\ ~DmiHardResetSet) => Commands = <<>>

\* C20 amended: a DTMCS write with DMIRESET set, whether or not
\* DMIHARDRESET is set too, issues the DMI write (0x10, 0) and, if that
\* write succeeds, the DMI write (0x10, 1), and no other DMI command; a
\* DTMCS write with DMIHARDRESET set and DMIRESET clear is rejected as
\* unsupported and issues no DMI command; a write with neither bit set
\* issues no DMI command.
C20_Dtmcs ==
    DtmcsCall =>
        /\ DmiResetSet =>
              /\ Len(wlink.sent) >= 1
              /\ IF wlink.sent[1].ok
                 THEN Commands = <<WriteOf(0), WriteOf(1)>>
                 ELSE Commands = <<WriteOf(0)>>
        /\ (DmiHardResetSet /\ ~DmiResetSet) =>
              wlink.ret.kind = "UnsupportedOperation" /\ Commands = <<>>
        /\ (~DmiResetSet /\ ~DmiHardResetSet) => Commands = <<>>

\* A DTMCS write with both DMIRESET and DMIHARDRESET set issued the two DMI
\* writes and returned Ok.
C20_Witness ==
    /\ DtmcsCall
    /\ DmiResetSet
    /\ DmiHardResetSet
    /\ Commands = <<WriteOf(0), WriteOf(1)>>
    /\ wlink.ret.kind = "Ok"

\* An iteration of the retry loop after the first: the executor runs again.
RetryStep ==
    /\ Running
    /\ Top.pc = "retry"
    /\ hist.exec >= 1
    /\ hist'.exec = hist.exec + 1

\* The retry sends final_transfers from the first transfer that received
\* WAIT on.
RetrySendsFromWait ==
    RetryStep =>
        /\ chunk_start' = successful_transfers
        /\ chunk_start' < Len(final_transfers)
        /\ final_transfers[chunk_start' + 1].status = WaitResponse
        /\ \A i \in 1..chunk_start' : final_transfers[i].status = Ok

\* Transfer i keeps its Ok status and its value in this step.
KeepsOk(i) ==
    /\ final_transfers'[i].status = Ok
    /\ final_transfers'[i].value = final_transfers[i].value

\* C23 as stated: each WAIT retry sends exactly the suffix of T' that starts
\* at the first transfer that received WAIT, and a transfer that obtained
\* status Ok in an earlier attempt is never sent again and keeps its Ok
\* status and its value.
C23_OkNeverResent ==
    [][/\ RetrySendsFromWait
       /\ RetryStep =>
            \A i \in 1..Len(final_transfers) :
                final_transfers[i].status = Ok
                    => (i <= chunk_start' /\ KeepsOk(i))]_vars

\* C23 amended: each WAIT retry sends exactly the suffix of T' that starts
\* at the first transfer that received WAIT; a transfer before that one,
\* which obtained status Ok in an earlier attempt, is never sent again and
\* keeps its Ok status and its value until perform_raw_transfers_retry
\* returns; a transfer after it is sent again even if it obtained status Ok.
C23_OkBeforeWaitNeverResent ==
    [][/\ RetrySendsFromWait
       /\ (Running /\ Top.pc \in {"retry", "abort"})
            => \A i \in 1..successful_transfers :
                  final_transfers[i].status = Ok /\ KeepsOk(i)]_vars

\* A retry was sent from the second transfer of three on, the first having
\* obtained Ok before.
C23_Witness ==
    /\ Running
    /\ hist.exec = 2
    /\ chunk_start = 1
    /\ Len(final_transfers) = 3
    /\ final_transfers[1].status = Ok

\* The 32-bit value the target receives for a write of v to register a.
WriteWireOf ==
    [p \in {"Swd", "Jtag"}, a \in Addresses,
     v \in WriteValues \cup {0} |-> WireValue(p, DapTransferWrite(a, v))]

\* Caller transfer j is a write that this retry sends again, and the value
\* it is sent with is the caller's.
ResentWithCallerValue(j) ==
    LET i == result_indices[j].index
        sent == final_transfers[i]
    IN (is_write(Top.transfers[j]) /\ i > successful_transfers)
          => WriteWireOf[protocol, sent.address, sent.value] = Top.transfers[j].value

\* C24: every write transfer that a WAIT retry sends again carries on the
\* wire the 32-bit value the caller supplied, whatever the acknowledgements
\* of earlier attempts.
C24_ResentWriteValue ==
    [][RetryStep => \A j \in 1..Len(Top.transfers) : ResentWithCallerValue(j)]_vars

\* The JtagWriteCommand of a read of register a.
ReadCommand(a) == jtag_write([DapTransferRead(a) EXCEPT !.value = Word(0)])

\* The commands queued after those of the caller's transfers.
Bookkeeping == SubSeq(jtag.commands, Len(jtag.transfers) + 1, Len(jtag.commands))

LastTransfer == jtag.transfers[Len(jtag.transfers)]
LastIsAbort == LastTransfer.address = "DP_ABORT" /\ LastTransfer.direction = Write
LastIsRdbuff == LastTransfer.address = "DP_RDBUFF" /\ LastTransfer.direction = Read

\* C25: perform_jtag_transfers queues one 35-bit DR write per caller
\* transfer in caller order, then one RDBUFF read iff the last transfer is
\* neither an ABORT write nor an RDBUFF read, then a CTRL/STAT read and an
\* RDBUFF read iff the last transfer is not an ABORT write, and submits the
\* whole queue in one write_register_batch call.
C25_JtagQueue ==
    jtag.stage = "done" =>
        /\ Len(jtag.commands) >= Len(jtag.transfers)
        /\ \A i \in 1..Len(jtag.transfers) :
              /\ jtag.commands[i] =
                    jtag_write([jtag.transfers[i] EXCEPT !.value = Word(@)])
              /\ jtag.commands[i].len = 35
        /\ Bookkeeping =
              (IF ~LastIsAbort /\ ~LastIsRdbuff
               THEN <<ReadCommand("DP_RDBUFF")>> ELSE <<>>)
              \o (IF ~LastIsAbort
                  THEN <<ReadCommand("DP_CTRL"), ReadCommand("DP_RDBUFF")>> ELSE <<>>)
        /\ jtag.batch_calls = 1
        /\ jtag.run.executed <= Len(jtag.commands)

\* A batch of a read of CTRL/STAT and a write to AP was queued as five
\* commands.
C25_Witness ==
    /\ jtag.stage = "done"
    /\ jtag.transfers = <<DapTransferRead("DP_CTRL"), DapTransferWrite("AP", 21)>>
    /\ Len(jtag.commands) = 5
    /\ jtag.run.executed = 5

IsRdbuffRead(t) == t.address = "DP_RDBUFF" /\ t.direction = Read

\* perform_jtag_transfers returned Ok without finding a sticky error.
JtagOkNoSticky ==
    /\ jtag.stage = "done"
    /\ jtag.out.tag = "Ok"
    /\ ~(jtag.check.taken /\ (jtag.check.received_value \div 32) % 2 = 1)

\* The status of the response to queued command j.
ResponseStatus(j) == IF j <= jtag.run.executed THEN Ok ELSE jtag.run.error

\* Transfer i has the status of the response to queued command i + 1.
StatusFromNext(i) ==
    LET t == jtag.out.transfers[i]
    IN ~(IsAbortWrite(t) \/ IsRdbuffRead(t)) => t.status = ResponseStatus(i + 1)

C27_AbortAndRdbuffOk ==
    JtagOkNoSticky =>
        \A i \in 1..Len(jtag.transfers) :
            LET t == jtag.out.transfers[i]
            IN (IsAbortWrite(t) \/ IsRdbuffRead(t)) => t.status = Ok

\* The value taken for the sticky check has sticky_err (bit 5) set.
StickySeen == jtag.check.taken /\ (jtag.check.received_value \div 32) % 2 = 1

\* The caller's transfers as the result loop leaves them, before the sticky
\* check.
Shifted == perform_jtag_transfers(jtag.transfers, jtag.run, 0, 0, TRUE, 0, 0).transfers

\* The commands write_register_batch put on the wire.
BatchSent ==
    IF jtag.run.error = "none" THEN Len(jtag.commands) ELSE jtag.run.executed + 1

\* C28: when the CTRL/STAT value taken from the bookkeeping commands has
\* sticky_err set, perform_jtag_transfers issues exactly one corrective
\* CTRL/STAT write and then (the transport not failing on that write) every
\* caller transfer whose status is Ok becomes Failed(FaultResponse), Failed
\* statuses staying as they are; when sticky_err is clear there is no extra
\* write and no status changes.
C28_StickyDowngrade ==
    (jtag.stage = "done" /\ jtag.out.tag # "Panic" /\ jtag.run.error # "Probe") =>
        IF StickySeen
        THEN /\ jtag.out.corr
             /\ jtag.out.ncmd = BatchSent + 1
             /\ jtag.out.tag = "Ok" =>
                   \A i \in 1..Len(jtag.transfers) :
                       jtag.out.transfers[i].status =
                           IF Shifted[i].status = Ok THEN FaultResponse
                           ELSE Shifted[i].status
        ELSE /\ ~jtag.out.corr
             /\ jtag.out.ncmd = BatchSent
             /\ jtag.out.tag = "Ok"
             /\ \A i \in 1..Len(jtag.transfers) :
                   jtag.out.transfers[i].status = Shifted[i].status

\* A write to AP and a read of AP, every command answered and sticky_err
\* set: one corrective write, both transfers Failed(FaultResponse).
C28_Witness ==
    /\ jtag.stage = "done"
    /\ jtag.transfers = <<DapTransferWrite("AP", 21), DapTransferRead("AP")>>
    /\ StickySeen
    /\ jtag.out.tag = "Ok"
    /\ jtag.out.ncmd = 6
    /\ \A i \in 1..2 : Shifted[i].status = Ok
    /\ \A i \in 1..2 : jtag.out.transfers[i].status = FaultResponse

\* C29: the CTRL/STAT value perform_jtag_transfers tests for sticky_err is
\* the value carried in the response to the final queued RDBUFF read, the
\* command after the CTRL/STAT read, by the same one-command pipeline delay
\* as for the caller's transfers.
C29_CheckedValueFromFinalRdbuff ==
    (jtag.stage = "done" /\ jtag.check.taken) =>
        /\ jtag.commands[Len(jtag.commands)] = ReadCommand("DP_RDBUFF")
        /\ jtag.check.handle = Len(jtag.commands)
        /\ SlotOf(jtag.check.received_value) = Len(jtag.commands)

\* The value tested is the one carried in the response to the CTRL/STAT read
\* command itself.
C29_CheckedValueFromCtrlCommand ==
    (jtag.stage = "done" /\ jtag.check.taken) =>
        /\ jtag.commands[jtag.check.handle] = ReadCommand("DP_CTRL")
        /\ jtag.check.handle = Len(jtag.commands) - 1
        /\ SlotOf(jtag.check.received_value) = Len(jtag.commands) - 1

\* C30: perform_jtag_transfers reports every caller transfer of a batch not
\* ending in an ABORT write as Ok only if the CTRL/STAT bookkeeping read
\* completed and the value inspected had sticky_err clear: a WAIT or other
\* DAP error on the bookkeeping commands never gives an all-Ok batch whose
\* sticky check was skipped.
C30_AllOkOnlyAfterCheck ==
    (/\ jtag.stage = "done"
     /\ jtag.out.tag = "Ok"
     /\ ~LastIsAbort
     /\ \A i \in 1..Len(jtag.transfers) : jtag.out.transfers[i].status = Ok)
        => (jtag.check.taken /\ ~StickySeen)

\* C21: calling clear_overrun_and_sticky_err twice in succession is
\* equivalent to calling it once: each call sends one write to ABORT, the
\* two writes are identical, and when both calls return Ok the probe
\* settings and the target's sticky flags after the second call equal those
\* after the first.
C21_ClearTwice ==
    \A k \in 1..(Len(clr.calls) - 1) :
        LET first == clr.calls[k]
            second == clr.calls[k + 1]
        IN /\ first.sent = 1 /\ second.sent = 1
           /\ Len(first.writes) = 1
           /\ first.writes[1].address = "DP_ABORT"
           /\ first.writes[1].direction = Write
           /\ second.writes = first.writes
           /\ second.value = first.value
           /\ second.on_wire = first.on_wire
           /\ (first.result = Ok /\ second.result = Ok)
                 => /\ second.settings = first.settings
                    /\ second.sticky = first.sticky

\* On SWD, with both sticky flags set, two calls returned Ok: the flags
\* were clear after the first and after the second.
C21_Witness ==
    /\ protocol = "Swd"
    /\ Len(clr.calls) = 2
    /\ clr.calls[1].before = StickyFlags
    /\ clr.calls[1].result = Ok
    /\ clr.calls[1].sticky = {}
    /\ clr.calls[2].result = Ok
    /\ clr.calls[2].sticky = {}

\* Version major.minor is older than 2.7.
OlderThan2_7(major, minor) == major < 2 \/ (major = 2 /\ minor < 7)

\* C22: WCH-Link initialisation fails with UnsupportedFirmwareVersion for
\* every firmware version older than 2.7 and succeeds for every version 2.7
\* or newer.
C22_FirmwareVersionGate ==
    wlink_open.result \in {"Ok", "UnsupportedFirmwareVersion"} =>
        IF OlderThan2_7(wlink_open.v_major, wlink_open.v_minor)
        THEN wlink_open.result = "UnsupportedFirmwareVersion"
        ELSE wlink_open.result = "Ok"

\* What init does: it fails exactly for the versions whose major is not 2
\* and whose minor is below 7.
C22_GateOfTheCode ==
    wlink_open.result \in {"Ok", "UnsupportedFirmwareVersion"} =>
        (wlink_open.result = "UnsupportedFirmwareVersion"
            <=> (wlink_open.v_major # 2 /\ wlink_open.v_minor < 7))

\* write_register_batch stopped with a DAP error at queued command
\* StoppedAt, and perform_jtag_transfers did not panic.
DapStop ==
    /\ jtag.stage = "done"
    /\ jtag.run.error \in {WaitResponse, NoAcknowledge}
    /\ jtag.out.tag # "Panic"
StoppedAt == jtag.run.executed + 1

\* When the transport failed, the error is returned and no caller transfer
\* is changed.
ProbeErrorLeavesTransfers ==
    (jtag.stage = "done" /\ jtag.run.error = "Probe")
        => (jtag.out.tag = "Probe" /\ jtag.out.transfers = jtag.transfers)

BatchExecuted == jtag.stage = "done"

\* C32 as stated: while a JTAG batch executes, the probe's idle-cycle setting
\* is at least the idle_cycles_after of every transfer in the batch, whatever
\* value the WAIT retries grew it to.
C32_IdleAtLeastRequestedAlways ==
    BatchExecuted =>
        \A i \in 1..Len(jtag.transfers) :
            jtag.set_idle >= jtag.transfers[i].idle_cycles_after

\* C32 amended: the setting is the batch maximum capped at 255, so it is at
\* least the idle_cycles_after of every transfer that asks for at most 255.
C32_IdleAtLeastRequested ==
    BatchExecuted =>
        /\ jtag.set_idle <= 255
        /\ \A i \in 1..Len(jtag.transfers) :
              jtag.set_idle >= Min(jtag.transfers[i].idle_cycles_after, 255)
        /\ \E i \in 1..Len(jtag.transfers) :
              jtag.set_idle = Min(jtag.transfers[i].idle_cycles_after, 255)

\* A read and a write that seven WAIT arms left with 256 idle cycles: the
\* batch ran with 255.
C32_Witness ==
    /\ BatchExecuted
    /\ Len(jtag.transfers) = 2
    /\ jtag.transfers[1].direction = Read
    /\ jtag.transfers[2].idle_cycles_after = 256
    /\ jtag.set_idle = 255
\* ---------------------------------------------------------------- C33
\* A step of perform_raw_transfers_retry in which the WAIT arm ran to its
\* end: the chunk of this iteration is final_transfers from chunk_start on.
WaitArmStep ==
    /\ Running
    /\ Top.pc = "abort"
    /\ attempt' = attempt + 1

\* A step inside one perform_raw_transfers_retry call.
RetryLoopStep ==
    /\ Running
    /\ Top.pc \in {"retry", "abort"}
    /\ Len(final_transfers') = Len(final_transfers)

\* In the WAIT arm the increment is max(1, num_idle_cycles_between_writes)
\* doubled once per earlier WAIT and capped; it is added to every write of
\* the chunk and to no other transfer, and then doubled and capped.
WaitArmAddsIdle ==
    WaitArmStep =>
        /\ retry_idle_cycles = RetryIdleCycles(swd_settings, attempt)
        /\ retry_idle_cycles' =
              Min(swd_settings.max_retry_idle_cycles_after_wait, 2 * retry_idle_cycles)
        /\ \A i \in 1..Len(final_transfers) :
              final_transfers'[i].idle_cycles_after =
                  final_transfers[i].idle_cycles_after
                  + (IF i > chunk_start /\ final_transfers[i].direction = Write
                     THEN retry_idle_cycles ELSE 0)

\* No transfer's idle_cycles_after decreases.
IdleNeverDecreases ==
    RetryLoopStep =>
        \A i \in 1..Len(final_transfers) :
            final_transfers'[i].idle_cycles_after >= final_transfers[i].idle_cycles_after

\* C33: the idle increment applied on a WAIT starts at
\* max(1, num_idle_cycles_between_writes), is doubled after each WAIT and
\* never exceeds max_retry_idle_cycles_after_wait; it is added to
\* idle_cycles_after of every write of the retried chunk and of no read, so
\* no idle_cycles_after ever decreases.
C33_IdleIncrementNeverExceeds ==
    [][/\ WaitArmAddsIdle
       /\ IdleNeverDecreases
       /\ WaitArmStep =>
             retry_idle_cycles <= swd_settings.max_retry_idle_cycles_after_wait]_vars

\* ------------------------------------- the plan of perform_transfers alone
\* idle_cycles_after as a caller may have set it on the transfers it passes.
CallerIdles == {0, 7}

\* The batches handed to perform_transfers, with the caller's idle cycles.
PlanBatches ==
    UNION {[1..n -> {[t EXCEPT !.idle_cycles_after = c] :
                        t \in CallerTransfers, c \in CallerIdles}] :
             n \in 1..MaxBatch}

PlanInit ==
    /\ fn_call \in {[NoFnCall EXCEPT !.stage = "call", !.input = b] : b \in PlanBatches}
    /\ protocol \in {"Swd", "Jtag"}
    /\ swd_settings \in SettingsChoices
    /\ wlink = NoWlink
    /\ wire = NoWire
    /\ jtag = NoJtag
    /\ clr = NoClr
    /\ wlink_open = NoWlinkOpen
    /\ idle_cycles = 0
    /\ stack = <<>>
    /\ final_transfers = <<>>
    /\ result_indices = <<>>
    /\ successful_transfers = 0
    /\ chunk_start = 0
    /\ retry_idle_cycles = 0
    /\ attempt = 0
    /\ hist = NoHist

\* perform_transfers up to the call of perform_raw_transfers_retry: the
\* extended batch and the result indices are built.
PlanTransfers ==
    /\ fn_call.stage = "call"
    /\ fn_call' = [fn_call EXCEPT !.stage = "planned",
                                  !.output = Plan(fn_call.input, protocol, swd_settings)]
    /\ UNCHANGED <<engine, wire, wlink, jtag, clr, wlink_open>>

PlanNext == PlanTransfers

PlanSpec == PlanInit /\ [][PlanNext]_vars

\* ---------------------------------------------------------------- C34
\* Position in T' of caller transfer k.
PlannedAt(k) == fn_call.output.indices[k].index

\* The transfer of T' at position p is followed by an extra RDBUFF read,
\* a transfer that is no caller transfer.
ExtraPlannedAfter(p) ==
    /\ p < Len(fn_call.output.final)
    /\ \A k \in 1..Len(fn_call.input) : PlannedAt(k) # p + 1

\* Position p of T' is an extra RDBUFF read.
IsExtra(p) == \A k \in 1..Len(fn_call.input) : PlannedAt(k) # p

\* idle_cycles_after_transfer at the last position of T', nothing elsewhere.
TailIdle(p) ==
    IF p = Len(fn_call.output.final) THEN swd_settings.idle_cycles_after_transfer ELSE 0

\* C34: in the extended batch T' every caller write has idle_cycles_after =
\* num_idle_cycles_between_writes whatever the caller's value and every
\* caller read keeps the caller's value; idle_cycles_before_write_verify is
\* added to a transfer exactly when an extra RDBUFF read is inserted after
\* it and it is a write (an extra RDBUFF after an AP read adds 0); and
\* idle_cycles_after_transfer is added once, to the last transfer of T' only.
C34_PlannedIdleCycles ==
    fn_call.stage = "planned" =>
        /\ \A k \in 1..Len(fn_call.input) :
              LET t == fn_call.input[k]
                  p == PlannedAt(k)
              IN fn_call.output.final[p].idle_cycles_after =
                    (IF t.direction = Write
                     THEN swd_settings.num_idle_cycles_between_writes
                     ELSE t.idle_cycles_after)
                    + (IF ExtraPlannedAfter(p) /\ t.direction = Write
                       THEN swd_settings.idle_cycles_before_write_verify ELSE 0)
                    + TailIdle(p)
        /\ \A p \in 1..Len(fn_call.output.final) :
              IsExtra(p) => fn_call.output.final[p].idle_cycles_after = TailIdle(p)

\* On SWD with two idle cycles between writes, an AP write passed with seven
\* idle cycles and a DPIDR read passed with seven: the write is planned with
\* two plus three before the extra RDBUFF read, the read with seven plus one.
C34_Witness ==
    /\ fn_call.stage = "planned"
    /\ protocol = "Swd"
    /\ swd_settings.num_idle_cycles_between_writes = 2
    /\ Len(fn_call.input) = 2
    /\ fn_call.input[1].direction = Write
    /\ fn_call.input[1].idle_cycles_after = 7
    /\ fn_call.input[2].idle_cycles_after = 7
    /\ Len(fn_call.output.final) = 3
    /\ fn_call.output.final[1].idle_cycles_after = 5
    /\ fn_call.output.final[2] = DapTransferRead("DP_RDBUFF")
    /\ fn_call.output.final[3].idle_cycles_after = 8
\* ---------------------------------------------------------------- C35
\* raw_read_block or raw_write_block is about to return after its loop over
\* the transfers that perform_transfers handed back with Ok.
BlockReturns ==
    /\ Len(stack) = 1
    /\ Top.op \in {"raw_read_block", "raw_write_block"}
    /\ Top.pc = "ret"
    /\ hist.retryResult = "Ok"

\* The transfers of the block whose status is Failed.
FailedAt == {i \in 1..Len(Top.transfers) : Top.transfers[i].status \notin {Ok, Pending}}

\* The first of them.
FirstFailed == CHOOSE i \in FailedAt : \A j \in FailedAt : i <= j

\* values holds the values of the transfers before position `upto` and is
\* as the caller passed it from there on.
StoredBefore(upto) ==
    \A i \in 1..Len(Top.transfers) :
        Top.values[i] = IF i < upto THEN Top.transfers[i].value
                        ELSE InitialBuffer(Len(Top.transfers))[i]

\* C35: raw_read_block and raw_write_block inspect the caller transfers in
\* order and return the error of the first transfer whose status is Failed;
\* raw_read_block has by then stored the values of all earlier transfers and
\* leaves the rest of values unchanged; if that error is FaultResponse
\* exactly one sticky-clear ABORT write is issued before returning and no
\* diagnostic CTRL/STAT read is made; if no transfer failed, Ok is returned
\* with every value stored.  (An ABORT write that fails puts its own error
\* in the place of the FaultResponse.)
C35_BlockResult ==
    BlockReturns =>
        IF FailedAt # {}
        THEN LET err == Top.transfers[FirstFailed].status
             IN /\ Top.result =
                      ResultErr(IF err = FaultResponse /\ hist.abortAck # Ok
                                THEN hist.abortAck ELSE err)
                /\ Top.op = "raw_read_block" => StoredBefore(FirstFailed)
                /\ hist.diag = 0
                /\ IF err = FaultResponse
                   THEN /\ hist.lastOp = "clear"
                        /\ hist.abortsSince = 1
                        /\ hist.abortValue = ClearAbortValue
                   ELSE hist.lastOp # "clear"
        ELSE /\ Top.result.tag = "Ok"
             /\ Top.op = "raw_read_block" => StoredBefore(Len(Top.transfers) + 1)
\* ---------------------------------------------------------------- C36
\* perform_raw_transfers_retry is at the start of an iteration of its loop.
IterationStarts ==
    /\ Running
    /\ Top.pc = "retry"
    /\ LoopContinues(attempt, swd_settings.num_retries_after_wait)

\* The executor has returned Ok to perform_raw_transfers_retry and the walk
\* over the chunk is done.
AfterAttempt ==
    /\ Running
    /\ hist.exec >= 1
    /\ hist.retryResult \notin {"Panic", "Err"}

\* The positions of T' up to which every status is Ok.
OkPrefixes ==
    {n \in 0..Len(final_transfers) : \A i \in 1..n : final_transfers[i].status = Ok}

\* C36: the assertion of perform_raw_transfers_retry that the chunk is not
\* empty never fails: at the start of every iteration successful_transfers
\* is below the length of T', and after every executor attempt
\* successful_transfers is the number of leading transfers of T' whose
\* status is Ok.
C36_ChunkNeverEmpty ==
    /\ IterationStarts => successful_transfers < Len(final_transfers)
    /\ AfterAttempt =>
          /\ successful_transfers \in OkPrefixes
          /\ \A n \in OkPrefixes : n <= successful_transfers

\* A second iteration is about to start on the last two of three transfers,
\* the first of them answered WAIT after the first transfer was Ok.
C36_Witness ==
    /\ IterationStarts
    /\ attempt = 1
    /\ Len(final_transfers) = 3
    /\ successful_transfers = 1
    /\ final_transfers[1].status = Ok
    /\ final_transfers[2].status = WaitResponse
\* ---------------------------------------------------------------- C37
\* A step of the call on top of the stack, from its start to its return.
SameCall ==
    /\ Running
    /\ Len(stack') = Len(stack)

\* perform_transfers is running for the call on top of the stack, or
\* returns in this step.
PerformTransfersRuns == Running /\ Top.pc \in {"retry", "abort"}

\* C37: perform_transfers changes only the status of each caller transfer
\* and the value of each caller read: the address, direction and
\* idle_cycles_after of every caller transfer, the value of every caller
\* write, and the length and order of the caller's slice are the same after
\* the call as before, whether it returns Ok or Err.
C37_FrameOfPerformTransfers ==
    [][SameCall =>
         LET before == Top.transfers
             after == stack'[Len(stack)].transfers
         IN /\ Len(after) = Len(before)
            /\ \A i \in 1..Len(before) :
                  /\ after[i].address = before[i].address
                  /\ after[i].direction = before[i].direction
                  /\ after[i].idle_cycles_after = before[i].idle_cycles_after
                  /\ before[i].direction = Write => after[i].value = before[i].value
            /\ (PerformTransfersRuns /\ stack'[Len(stack)].result.tag = "Err")
                  => after = before]_vars

\* perform_transfers has returned Ok on SWD for an AP write of 21 and a read
\* that got a value: the write still holds 21.
C37_Witness ==
    /\ Running
    /\ protocol = "Swd"
    /\ Top.op = "perform_transfers"
    /\ Top.pc = "ret"
    /\ Top.result.tag = "Ok"
    /\ Len(Top.transfers) = 2
    /\ Top.transfers[1] = [DapTransferWrite("AP", 21) EXCEPT !.status = Ok]
    /\ Top.transfers[2].direction = Read
    /\ Top.transfers[2].status = Ok
    /\ Top.transfers[2].value > 0
\* ----------------------------------------------------------- swj_sequence
\* The width of `bits: u64`.
U64Bits == 64

\* bits.to_le_bytes(): the eight bytes of the u64, least significant byte
\* first.  The u64 is the sequence of its 64 bits and a byte the sequence of
\* its eight bits, least significant first.
to_le_bytes(bits) == [j \in 1..(U64Bits \div 8) |-> SubSeq(bits, 8 * (j - 1) + 1, 8 * j)]

\* OutSequence::from_bytes(data, bits): bit i of each byte in turn is pushed
\* and the usize `bits` counted down, until it is 0 or the bytes are used
\* up.  `bits -= 1` on 0 panics in a build with overflow checks and wraps in
\* one without, to a value that the 8 * Len(data) subtractions of the loops
\* do not bring to 0.
from_bytes(data, bits, overflow_checks) ==
    LET pushed == IF bits = 0 THEN 8 * Len(data) ELSE Min(bits, 8 * Len(data))
    IN IF bits = 0 /\ overflow_checks
       THEN [tag |-> "Panic", bits |-> <<data[1][1]>>]
       ELSE [tag |-> "Ok",
             bits |-> [k \in 1..pushed |-> data[((k - 1) \div 8) + 1][((k - 1) % 8) + 1]]]

\* send_sequence on JTAG: one shift_raw_sequence per run of equal bits, with
\* that bit on TMS for `count` clock cycles (`first` is where the run starts).
jtag_sequences(bits) ==
    LET starts == {k \in 1..Len(bits) : k = 1 \/ bits[k] # bits[k - 1]}
        nth(i) == CHOOSE k \in starts : Cardinality({x \in starts : x < k}) = i - 1
    IN [i \in 1..Cardinality(starts) |->
          LET first == nth(i)
              next == IF i < Cardinality(starts) THEN nth(i + 1) ELSE Len(bits) + 1
          IN [tms |-> bits[first], count |-> next - first, first |-> first]]

\* The bits that the first n of these calls put on TMS, in order.
tms_bits(sequences, n) ==
    LET total == IF n = 0 THEN 0 ELSE sequences[n].first + sequences[n].count - 1
    IN [k \in 1..total |->
          LET s == CHOOSE x \in 1..n :
                      /\ sequences[x].first <= k
                      /\ k < sequences[x].first + sequences[x].count
          IN sequences[s].tms]

\* send_sequence(probe, protocol, sequence): the probe calls made and the bits
\* they carry; call number fail_at fails in the transport (0: none does).
send_sequence(wire_protocol, bits, fail_at) ==
    IF wire_protocol = "Jtag"
    THEN LET sequences == jtag_sequences(bits)
             failed == fail_at \in 1..Len(sequences)
             calls == IF failed THEN fail_at ELSE Len(sequences)
         IN [tag |-> IF failed THEN "Err" ELSE "Ok", calls |-> calls,
             sent |-> tms_bits(sequences, calls)]
    ELSE [tag |-> IF fail_at = 1 THEN "Err" ELSE "Ok", calls |-> 1, sent |-> bits]

\* swj_sequence(bit_len, bits)
swj_sequence(wire_protocol, bit_len, bits, overflow_checks, fail_at) ==
    LET out_sequence == from_bytes(to_le_bytes(bits), bit_len, overflow_checks)
    IN IF out_sequence.tag = "Panic"
       THEN [tag |-> "Panic", calls |-> 0, sent |-> <<>>]
       ELSE send_sequence(wire_protocol, out_sequence.bits, fail_at)

\* swj_sequence is about to be called.  The u64 values passed: zero, all
\* ones, alternating bits from bit 0 and from bit 1, the top bit alone, every
\* third bit; the bit_len values passed (a u8): up to the width of `bits`
\* and beyond.
SwjInit ==
    /\ fn_call \in {[NoFnCall EXCEPT !.stage = "call",
                                     !.input = [bit_len |-> n, bits |-> b]] :
                       n \in 0..(U64Bits + 2),
                       b \in {[i \in 1..U64Bits |-> FALSE],
                              [i \in 1..U64Bits |-> TRUE],
                              [i \in 1..U64Bits |-> i % 2 = 1],
                              [i \in 1..U64Bits |-> i % 2 = 0],
                              [i \in 1..U64Bits |-> i = U64Bits],
                              [i \in 1..U64Bits |-> i % 3 = 1]}}
    /\ protocol \in {"Swd", "Jtag"}
    /\ swd_settings = SwdSettings(0, 0)
    /\ wlink = NoWlink
    /\ wire = NoWire
    /\ jtag = NoJtag
    /\ clr = NoClr
    /\ wlink_open = NoWlinkOpen
    /\ idle_cycles = 0
    /\ stack = <<>>
    /\ final_transfers = <<>>
    /\ result_indices = <<>>
    /\ successful_transfers = 0
    /\ chunk_start = 0
    /\ retry_idle_cycles = 0
    /\ attempt = 0
    /\ hist = NoHist

\* One call of swj_sequence, in a build with or without overflow checks; the
\* transport fails in no probe call, in the first or in the second.
SwjSequence ==
    /\ fn_call.stage = "call"
    /\ \E overflow_checks \in BOOLEAN, fail_at \in 0..2 :
         fn_call' = [fn_call EXCEPT
                       !.stage = "sent",
                       !.output = swj_sequence(protocol, fn_call.input.bit_len,
                                               fn_call.input.bits, overflow_checks,
                                               fail_at)]
    /\ UNCHANGED <<engine, wire, wlink, jtag, clr, wlink_open>>

SwjNext == SwjSequence

SwjSpec == SwjInit /\ [][SwjNext]_vars

\* ---------------------------------------------------------------- C38
\* C38: swj_sequence(bit_len, bits) sends exactly bit_len bits to the probe,
\* bit i of `bits` for i = 0 .. bit_len - 1 in that order (least significant
\* first), for every bit_len from 0 to 64, sending nothing when bit_len = 0.
C38_SwjSendsBitLen ==
    (fn_call.stage = "sent" /\ fn_call.input.bit_len <= 64)
        => /\ fn_call.output.tag # "Panic"
           /\ fn_call.output.tag = "Ok"
                 => fn_call.output.sent =
                        SubSeq(fn_call.input.bits, 1, fn_call.input.bit_len)
\* ---------------------------------------------------------------- C39
\* C39: if no DMI READ has succeeded since the WchLink probe was opened
\* (last_dmi_read is empty), a DMI NOP with addr = 0 and data = 0 panics
\* instead of returning a value or an error, and it does so without issuing
\* any USB command.
C39_NopWithoutReadPanics ==
    (NopZeroCall /\ wlink.good_reads = 0) =>
        /\ wlink.last_dmi_read = <<>>
        /\ wlink.ret.kind = "Panic"
        /\ wlink.ret.bits = <<>>
        /\ wlink.sent = <<>>

\* The second call is a NOP with addr = 0 and data = 0 after a first call in
\* which no DMI READ succeeded: it panicked.
C39_Witness ==
    /\ NopZeroCall
    /\ wlink.calls = 2
    /\ wlink.good_reads = 0
    /\ wlink.ret.kind = "Panic"
    /\ wlink.sent = <<>>
====
